---- MODULE Spec2Model ----
(***************************************************************************)
(* Model of the markdown file-processing worker (queue consumer,           *)
(* handleMessage, processFile, indexInTypesense) together with the three   *)
(* external stores it drives: the object bucket, the "Blob" catalog table  *)
(* and the Typesense search index.                                         *)
(*                                                                         *)
(* Strings that the code takes apart (object keys, paths, permalinks) are  *)
(* sequences of one-character strings; strings the code only copies are    *)
(* TLA+ strings.  A nullable column is a set: {} is NULL, {v} a value.     *)
(***************************************************************************)
EXTENDS Integers, Sequences, FiniteSets, TLC

\* ------------------------------------------------------------------ bounds
\* Number of messages the queue delivers in one behaviour, over all batches.
MaxDeliveries == 2
\* Number of times the uploader replaces an object while the worker runs.
MaxUploads == 1

\* The handleMessage tasks of one batch: a batch carries one or two messages,
\* so every pairwise interleaving of two tasks is explored.
Tasks == {1, 2}

\* ---------------------------------------------------- character sequences
NULL == {}
Some(v) == {v}

\* The characters matched by \w and by [\w-] in the identifier test.
WordChars ==
  { "a","b","c","d","e","f","g","h","i","j","k","l","m","n","o","p","q","r",
    "s","t","u","v","w","x","y","z","A","B","C","D","E","F","G","H","I","J",
    "K","L","M","N","O","P","Q","R","S","T","U","V","W","X","Y","Z","0","1",
    "2","3","4","5","6","7","8","9","_" }
IdentChars == WordChars \cup {"-"}

\* Characters that the regular expression '.' does not match.
LineTerminators == {"\n", "\r"}

\* Case folding of the /i flag, for the letters of the suffix pattern.
ToLower(c) ==
  CASE c = "M" -> "m" [] c = "D" -> "d" [] c = "X" -> "x" [] OTHER -> c

\* The string a character sequence spells (template-literal interpolation).
RECURSIVE Str(_)
Str(cs) ==
  IF cs = <<>> THEN ""
  ELSE IF Len(cs) = 1 THEN cs[1]
  ELSE Str(SubSeq(cs, 1, Len(cs) \div 2))
         \o Str(SubSeq(cs, Len(cs) \div 2 + 1, Len(cs)))

\* Position of the first occurrence of character c in cs at or after
\* position from, or 0 when there is none.
IndexOf(cs, c, from) ==
  LET at == {i \in from..Len(cs) : cs[i] = c}
  IN IF at = {} THEN 0 ELSE CHOOSE i \in at : \A j \in at : i <= j

StartsWithAt(cs, pat, at) ==
  /\ at + Len(pat) - 1 <= Len(cs)
  /\ \A i \in 1..Len(pat) : cs[at + i - 1] = pat[i]

\* String.prototype.includes
Includes(cs, pat) == \E at \in 1..Len(cs) : StartsWithAt(cs, pat, at)

EndsWithFold(cs, pat) ==
  /\ Len(cs) >= Len(pat)
  /\ \A i \in 1..Len(pat) : ToLower(cs[Len(cs) - Len(pat) + i]) = pat[i]

\* ------------------------------------------------------------- key codec
RawSegment == <<"r","a","w","/">>
FlowershowDir == <<"_","f","l","o","w","e","r","s","h","o","w","/">>

\* rawKey.match(/^([^/]+)\/([^/]+)\/raw\/(.+)$/): the three groups, or
\* matched = FALSE.
MatchKey(rawKey) ==
  LET s1 == IndexOf(rawKey, "/", 1)
      s2 == IF s1 = 0 THEN 0 ELSE IndexOf(rawKey, "/", s1 + 1)
      rest == IF s2 = 0 THEN <<>> ELSE SubSeq(rawKey, s2 + 1, Len(rawKey))
      ok == /\ s1 > 1
            /\ s2 > s1 + 1
            /\ StartsWithAt(rest, RawSegment, 1)
            /\ Len(rest) > Len(RawSegment)
            /\ \A i \in (Len(RawSegment) + 1)..Len(rest) :
                  rest[i] \notin LineTerminators
  IN IF ok
     THEN [matched |-> TRUE,
           siteId  |-> SubSeq(rawKey, 1, s1 - 1),
           branch  |-> SubSeq(rawKey, s1 + 1, s2 - 1),
           path    |-> SubSeq(rest, Len(RawSegment) + 1, Len(rest))]
     ELSE [matched |-> FALSE, siteId |-> <<>>, branch |-> <<>>, path |-> <<>>]

\* /^[\w-]+$/.test(s)
IsIdentifier(s) == Len(s) > 0 /\ \A i \in 1..Len(s) : s[i] \in IdentChars

\* path.match(/\.(md|mdx)$/i)
IsMarkdownPath(path) ==
  \/ EndsWithFold(path, <<".","m","d">>)
  \/ EndsWithFold(path, <<".","m","d","x">>)

\* Mutant: the reserved directory is looked for under a leading slash.
IsInternalPathRooted(path) ==
  StartsWithAt(path, <<"/">> \o FlowershowDir, 1)

\* path.includes("_flowershow/")
IsInternalPath(path) == Includes(path, FlowershowDir)

\* `${siteId}/${branch}/raw/${path}`
ObjectKey(siteId, branch, path) ==
  siteId \o <<"/">> \o branch \o <<"/">> \o RawSegment \o path

\* ------------------------------------------------------------ the parser
\* A stored markdown text is the character sequence of the file, kept in
\* the two parts gray-matter splits it into, together with what js-yaml
\* makes of the first: fmRaw (the frontmatter block with its two fences, <<>>
\* when the file has none), content (the rest of the file), fm (the fields
\* of the block) and malformed (the block does not parse).
Source(markdown) == markdown.fmRaw \o markdown.content

DescriptionChars == 200

Min(a, b) == IF a < b THEN a ELSE b

Has(bag, field) == field \in DOMAIN bag

\* The characters \s matches, among those the texts are made of.
Whitespace == {" ", "\t", "\n", "\r"}

\* String.prototype.trim
RECURSIVE TrimStart(_)
TrimStart(cs) ==
  IF cs # <<>> /\ Head(cs) \in Whitespace THEN TrimStart(Tail(cs)) ELSE cs

RECURSIVE TrimEnd(_)
TrimEnd(cs) ==
  IF cs # <<>> /\ cs[Len(cs)] \in Whitespace
  THEN TrimEnd(SubSeq(cs, 1, Len(cs) - 1))
  ELSE cs

Trim(cs) == TrimEnd(TrimStart(cs))

\* Position of the first occurrence of pat in cs at or after from, or 0.
Find(cs, pat, from) ==
  LET at == {i \in from..Len(cs) : StartsWithAt(cs, pat, i)}
  IN IF at = {} THEN 0 ELSE CHOOSE i \in at : \A j \in at : i <= j

\* Position of the last occurrence of pat in cs, or 0.
FindLast(cs, pat) ==
  LET at == {i \in 1..Len(cs) : StartsWithAt(cs, pat, i)}
  IN IF at = {} THEN 0 ELSE CHOOSE i \in at : \A j \in at : j <= i

\* .replace(/\[\[([\S\s]*?)]]/, "$1"): no g flag, the first wikilink only.
ReplaceFirstWikilink(cs) ==
  LET i == Find(cs, <<"[","[">>, 1)
      j == IF i = 0 THEN 0 ELSE Find(cs, <<"]","]">>, i + 2)
  IN IF j = 0 THEN cs
     ELSE SubSeq(cs, 1, i - 1) \o SubSeq(cs, i + 2, j - 1)
            \o SubSeq(cs, j + 2, Len(cs))

\* .replace(/[_*~`>]/g, ""); the backquote is not among the characters the
\* texts are made of.
MarkupChars == {"_", "*", "~", ">"}
RemoveMarkupChars(cs) == SelectSeq(cs, LAMBDA c : c \notin MarkupChars)

\* .replace(/\[(.*?)\]\(.*?\)/g, "$1"), on a text without line terminator.
RECURSIVE ReplaceLinks(_)
ReplaceLinks(cs) ==
  LET i == Find(cs, <<"[">>, 1)
      j == IF i = 0 THEN 0 ELSE Find(cs, <<"]","(">>, i + 1)
      k == IF j = 0 THEN 0 ELSE Find(cs, <<")">>, j + 2)
  IN IF k = 0 THEN cs
     ELSE SubSeq(cs, 1, i - 1) \o SubSeq(cs, i + 1, j - 1)
            \o ReplaceLinks(SubSeq(cs, k + 1, Len(cs)))

\* extractTitle(source): source.trim().match(/^(?:#\s+(.*))/m), the three
\* replacements on the captured text, trim.  <<>> stands for null and for
\* the empty title alike, both falsy.
extractTitle(source) ==
  LET s == Trim(source)
      starts == {p \in 1..(Len(s) - 1) :
                   /\ s[p] = "#"
                   /\ p = 1 \/ s[p - 1] \in LineTerminators
                   /\ s[p + 1] \in Whitespace}
  IN IF starts = {} THEN <<>>
     ELSE
       LET p == CHOOSE x \in starts : \A y \in starts : x <= y
           rest == TrimStart(SubSeq(s, p + 1, Len(s)))
           ends == {e \in 1..Len(rest) : rest[e] \in LineTerminators}
           heading ==
             IF ends = {} THEN rest
             ELSE SubSeq(rest, 1,
                         (CHOOSE x \in ends : \A y \in ends : x <= y) - 1)
       IN Trim(ReplaceLinks(RemoveMarkupChars(ReplaceFirstWikilink(heading))))

\* path.split("/").pop()?.replace(/\.(mdx|md)$/, "")   (case-sensitive)
RECURSIVE LastSegment(_)
LastSegment(path) ==
  LET s == IndexOf(path, "/", 1)
  IN IF s = 0 THEN path ELSE LastSegment(SubSeq(path, s + 1, Len(path)))

EndsWith(cs, pat) ==
  /\ Len(cs) >= Len(pat)
  /\ \A i \in 1..Len(pat) : cs[Len(cs) - Len(pat) + i] = pat[i]

FileTitle(path) ==
  LET f == LastSegment(path)
  IN IF EndsWith(f, <<".","m","d","x">>) THEN SubSeq(f, 1, Len(f) - 4)
     ELSE IF EndsWith(f, <<".","m","d">>) THEN SubSeq(f, 1, Len(f) - 3)
     ELSE f

\* .replace(/---[\s\S]*---/g, ""): greedy, from the first fence of the text
\* to its last one.
Fence == <<"-","-","-">>
RemoveFrontmatter(cs) ==
  LET i == Find(cs, Fence, 1)
      j == FindLast(cs, Fence)
  IN IF i > 0 /\ j >= i + Len(Fence)
     THEN SubSeq(cs, 1, i - 1) \o SubSeq(cs, j + Len(Fence), Len(cs))
     ELSE cs

\* The lines of a text.
RECURSIVE SplitLines(_)
SplitLines(cs) ==
  LET n == IndexOf(cs, "\n", 1)
  IN IF n = 0 THEN <<cs>>
     ELSE <<SubSeq(cs, 1, n - 1)>> \o SplitLines(SubSeq(cs, n + 1, Len(cs)))

RECURSIVE JoinLines(_)
JoinLines(lines) ==
  IF lines = <<>> THEN <<>>
  ELSE IF Len(lines) = 1 THEN lines[1]
  ELSE lines[1] \o <<"\n">> \o JoinLines(Tail(lines))

\* remark().use(stripMarkdown, {remove: ["heading", ...]}).process(content),
\* for texts made of headings, thematic breaks set off by blank lines and
\* paragraphs of plain words: the paragraphs are what is left.  The four
\* replacements between the frontmatter one and this call (comments,
\* YouTube links, wikilinks, wikilink images) match nothing in a paragraph
\* of plain words.
StripMarkdown(cs) ==
  JoinLines(SelectSeq(SplitLines(cs),
                      LAMBDA l : /\ Trim(l) # <<>>
                                 /\ Head(l) # "#"
                                 /\ Trim(l) # Fence))

\* if (stripped.value) return stripped.value.toString().slice(0, 200) +
\* "..."; return null.
ExtractDescription(prose) ==
  IF prose = <<>> THEN ""
  ELSE Str(SubSeq(prose, 1, Min(DescriptionChars, Len(prose)))) \o "..."

\* extractDescription(source)
extractDescription(source) ==
  ExtractDescription(StripMarkdown(RemoveFrontmatter(source)))

ParseErrorMessage == "Error parsing markdown: YAMLException"

\* frontMatter.title || (await extractTitle(content)) ||
\* path.split("/").pop()?.replace(...) || ""
ResolveTitle(fm, content, path) ==
  IF Has(fm, "title") /\ fm.title # "" THEN fm.title
  ELSE IF extractTitle(content) # <<>> THEN Str(extractTitle(content))
  ELSE Str(FileTitle(path))

\* Mutant: the description is always the derived one.
ResolveDescriptionDerived(fm, content) == extractDescription(content)

\* frontMatter.description || (await extractDescription(content)) || ""
ResolveDescription(fm, content) ==
  IF Has(fm, "description") /\ fm.description # "" THEN fm.description
  ELSE extractDescription(content)

\* parseMarkdownFile(markdown, path): [ok, metadata, body].  Title and
\* description are resolved from the whole text of the file; metadata is
\* the frontmatter with the two resolved fields over it, body the text
\* after the frontmatter block.
parseMarkdownFile(markdown, path) ==
  IF markdown.malformed
  THEN [ok |-> FALSE, metadata |-> <<>>, body |-> ""]
  ELSE
    [ok       |-> TRUE,
     metadata |->
       [title       |-> ResolveTitle(markdown.fm, Source(markdown), path),
        description |-> ResolveDescription(markdown.fm, Source(markdown))]
         @@ markdown.fm,
     body     |-> Str(markdown.content)]

\* ------------------------------------------------------------- the stores
MAX_FILE_BYTES == 5 * 1024 * 1024

Site1 == <<"s","1">>
Branch == <<"m">>
PathDoc == <<"a",".","m","d">>
PathImg == <<"i",".","p","n","g">>

KeyDoc == ObjectKey(Site1, Branch, PathDoc)
KeyImg == ObjectKey(Site1, Branch, PathImg)
\* valid keys for which the catalog holds no row
KeyNoRowMd == ObjectKey(Site1, Branch, <<"n",".","M","D">>)
KeyNoRowImg == ObjectKey(Site1, Branch, <<"n",".","p","n","g">>)
\* a key inside the reserved directory
KeyInternal == ObjectKey(Site1, Branch, FlowershowDir \o <<"c",".","m","d">>)
\* a stylesheet inside the reserved directory, which has a row
PathConfig == FlowershowDir \o <<"c",".","c","s","s">>
KeyConfig == ObjectKey(Site1, Branch, PathConfig)
\* a key without the raw segment, and one with a bad site identifier
KeyNoRaw == Site1 \o <<"/">> \o Branch \o <<"/">> \o PathDoc
KeyBadSite == ObjectKey(<<"s",".","1">>, Branch, PathDoc)

MessageKeys ==
  {KeyDoc, KeyImg, KeyNoRowMd, KeyNoRowImg, KeyInternal, KeyConfig, KeyNoRaw,
   KeyBadSite}

\* A frontmatter block: the fences around one line, which stands for the
\* lines of the fields.
FrontmatterBlock(line) ==
  Fence \o <<"\n">> \o line \o <<"\n">> \o Fence \o <<"\n">>

FieldLine == <<"k",":"," ","v">>

\* The texts the uploader may store under KeyDoc.
DocV1 ==
  [malformed |-> FALSE,
   fm |-> [title |-> "Test Article", description |-> "A test markdown file",
           date |-> "2024-03-20T00:00:00.000Z",
           permalink |-> <<"/","p","/">>],
   fmRaw |-> FrontmatterBlock(FieldLine),
   content |-> <<"#"," ","T","e","s","t","\n","\n","t","e","x","t">>]
DocV2 ==
  [malformed |-> FALSE,
   fm |-> [authors |-> "ann", publish |-> "true"],
   fmRaw |-> FrontmatterBlock(FieldLine),
   content |-> <<"#"," ","S","e","c","o","n","d","\n","\n","m","o","r","e">>]
DocUnpublished ==
  [malformed |-> FALSE,
   fm |-> [title |-> "Draft", publish |-> "false"],
   fmRaw |-> FrontmatterBlock(FieldLine),
   content |-> <<"d","r","a","f","t">>]
DocMalformed ==
  [malformed |-> TRUE, fm |-> <<>>,
   fmRaw |-> FrontmatterBlock(<<"k",":"," ","[">>), content |-> <<>>]

\* The object the first upload stored under KeyDoc.
FirstObject == [text |-> DocV1, size |-> 100]

Objects ==
  { FirstObject,
    [text |-> DocV2, size |-> MAX_FILE_BYTES],
    [text |-> DocUnpublished, size |-> 100],
    [text |-> DocMalformed, size |-> 100],
    [text |-> DocV1, size |-> MAX_FILE_BYTES + 1] }

ImageObject == [text |-> DocMalformed, size |-> 7]

BlobIds == {"b1", "b2", "b3"}

InitialBlob ==
  [id \in BlobIds |->
     [site_id     |-> Site1,
      path        |-> CASE id = "b1" -> PathDoc [] id = "b2" -> PathImg
                            [] OTHER -> PathConfig,
      created_at  |-> CASE id = "b1" -> 1 [] id = "b2" -> 2 [] OTHER -> 3,
      metadata    |-> <<>>,
      permalink   |-> NULL,
      sync_status |-> "PENDING",
      sync_error  |-> NULL]]

\* new Date(metadata.date).getTime() / 1000
EpochSeconds(date) ==
  CASE date = "2024-03-20T00:00:00.000Z" -> 1710892800
    [] date = "2024-03-21T00:00:00.000Z" -> 1710979200
    [] OTHER -> 0

\* ------------------------------------------------------------------ state
VARIABLES
  storageType,  \* "s3" or "r2": the backend getStorageClient selected
  bucket,       \* object key -> stored object, for the keys that exist
  Blob,         \* the catalog table: id -> row, for the rows that exist
  index,        \* the search index: <<collection, id>> -> document
  pc,           \* per task: the await the task is suspended at
  msgKey,       \* per task: msg.body.object.key
  loc,          \* per task: the locals of handleMessage and processFile
  acked,        \* per task: msg.ack() was called
  raised,       \* per task: the message of the error handleMessage caught
  log,          \* per task: the calls the task made so far, in order
  pre,          \* the stores as they were when queue() was invoked, and
                \* what the batch before did
  nDelivered,   \* messages delivered so far, over all batches
  nUploads,     \* uploads so far
  request,      \* the HTTP request the fetch handler was invoked with
  response,     \* what that invocation produced: NULL while it is pending
  queued,       \* FILE_PROCESSOR_QUEUE: the message bodies sent and not
                \* yet delivered
  env,          \* the bindings queue() is invoked with
  outcome       \* the promise of the last queue() invocation: "none"
                \* before the first, then "pending", "resolved" or
                \* "rejected"

\* The state of the HTTP entry point.
http == <<request, response, queued>>

\* The state of a queue() invocation outside its handlers.
invocation == <<env, outcome>>

vars ==
  <<storageType, bucket, Blob, index, pc, msgKey, loc, acked, raised, log,
    pre, nDelivered, nUploads, request, response, queued, env, outcome>>

\* validateEnv(env): TRUE when every variable of REQUIRED_ENV_VARS is set.
validateEnv(e) == e.DATABASE_URL

EnvErrorMessage == "Missing required env var: DATABASE_URL"

\* No HTTP request was received.
NoRequest == [pathname |-> ""]

NoLocals ==
  [siteId |-> <<>>, branch |-> <<>>, path |-> <<>>, blobId |-> "",
   resp |-> NULL, metadata |-> <<>>, body |-> "", e |-> NULL]

Init ==
  /\ storageType \in {"s3", "r2"}
  /\ bucket = [k \in {KeyDoc, KeyImg} |->
                IF k = KeyDoc THEN FirstObject ELSE ImageObject]
  /\ Blob = InitialBlob
  /\ index = <<>>
  /\ pc = [t \in Tasks |-> "idle"]
  /\ msgKey = [t \in Tasks |-> <<>>]
  /\ loc = [t \in Tasks |-> NoLocals]
  /\ acked = [t \in Tasks |-> FALSE]
  /\ raised = [t \in Tasks |-> NULL]
  /\ log = [t \in Tasks |-> <<>>]
  /\ pre = [Blob |-> InitialBlob, bucket |-> <<>>, index |-> <<>>,
            nUploads |-> 0, last |-> NULL]
  /\ nDelivered = 0
  /\ nUploads = 0
  /\ request = NoRequest
  /\ response = NULL
  /\ queued = <<>>
  /\ env \in [DATABASE_URL : BOOLEAN]
  /\ outcome = "none"

\* ---------------------------------------------------------------- helpers
Call(op, ok) == [op |-> op, ok |-> ok]

Logged(t, op, ok) == [log EXCEPT ![t] = Append(@, Call(op, ok))]

Goto(t, label) == pc' = [pc EXCEPT ![t] = label]

\* Mutant: the catch block acknowledges the failed message.
CaughtAndAck(t, message) ==
  /\ raised' = [raised EXCEPT ![t] = Some(message)]
  /\ acked' = [acked EXCEPT ![t] = TRUE]
  /\ Goto(t, "done")

\* Mutant: the catch block ends the handlers of the other messages of the
\* batch.
CaughtAbortingBatch(t, message) ==
  /\ raised' = [raised EXCEPT ![t] = Some(message)]
  /\ pc' = [u \in Tasks |-> IF pc[u] = "idle" THEN "idle" ELSE "done"]
  /\ UNCHANGED acked

\* Mutant: the catch block throws the error again, so that the promise of
\* the handler rejects.
CaughtRethrowing(t, message) ==
  /\ raised' = [raised EXCEPT ![t] = Some(message)]
  /\ Goto(t, "threw")
  /\ UNCHANGED acked

\* The catch block of handleMessage: the error is logged, no ack ("Let
\* Cloudflare handle retries"), and the handler returns normally.
Caught(t, message) ==
  /\ raised' = [raised EXCEPT ![t] = Some(message)]
  /\ Goto(t, "done")
  /\ UNCHANGED acked

\* msg.ack() followed by the normal return of handleMessage.
Ack(t) ==
  /\ acked' = [acked EXCEPT ![t] = TRUE]
  /\ Goto(t, "done")
  /\ UNCHANGED raised

\* SELECT id ... WHERE site_id = siteId AND path = path
\* ORDER BY created_at DESC LIMIT 1: the ids found (none or one).
SelectLatest(siteId, path) ==
  LET hits == {id \in DOMAIN Blob :
                 Blob[id].site_id = siteId /\ Blob[id].path = path}
  IN {id \in hits :
        \A other \in hits : Blob[other].created_at <= Blob[id].created_at}

\* Mutant: the update is an upsert, INSERT ... ON CONFLICT (id) DO UPDATE.
UpdateRowUpsert(blobId, changes) ==
  [id \in DOMAIN Blob \cup {blobId} |->
     IF id # blobId THEN Blob[id]
     ELSE IF id \in DOMAIN Blob THEN changes @@ Blob[id]
     ELSE changes]

\* Mutant: the metadata column is merged into, metadata || new, instead of
\* being assigned.
UpdateRowMergingMetadata(blobId, changes) ==
  IF blobId \in DOMAIN Blob
  THEN [Blob EXCEPT ![blobId] =
          IF "metadata" \in DOMAIN changes
          THEN [changes EXCEPT !.metadata = @ @@ Blob[blobId].metadata]
                 @@ Blob[blobId]
          ELSE changes @@ Blob[blobId]]
  ELSE Blob

\* Mutant: the update selects by path, WHERE path = (the path of the row),
\* instead of by id.
UpdateRowByPath(blobId, changes) ==
  [id \in DOMAIN Blob |->
     IF blobId \in DOMAIN Blob /\ Blob[id].path = Blob[blobId].path
     THEN changes @@ Blob[id]
     ELSE Blob[id]]

\* UPDATE "Blob" SET ... WHERE id = blobId: no row, no change, no error.
UpdateRow(blobId, changes) ==
  IF blobId \in DOMAIN Blob
  THEN [Blob EXCEPT ![blobId] = changes @@ @]
  ELSE Blob

DeleteRow(blobId) == [id \in DOMAIN Blob \ {blobId} |-> Blob[id]]

CatalogErrorMessage == "catalog: connection error"
StorageErrorMessage == "storage: request failed"
NoSuchKeyMessage == "The specified key does not exist."

NoBlobMessage(path) == "No blob found for path: " \o Str(path)
TooLargeMessage(length) == "File too large: " \o ToString(length)
NotFoundMessage(key) == "Object not found: " \o Str(key)

\* metadata.permalink.replace(/^\/+/, '').replace(/\/+$/, '')
RECURSIVE StripLeadingSlashes(_)
StripLeadingSlashes(cs) ==
  IF cs # <<>> /\ Head(cs) = "/" THEN StripLeadingSlashes(Tail(cs)) ELSE cs

\* Mutant: the second pattern is /\/$/, one trailing slash.
StripOneTrailingSlash(cs) ==
  IF cs # <<>> /\ cs[Len(cs)] = "/" THEN SubSeq(cs, 1, Len(cs) - 1) ELSE cs

RECURSIVE StripTrailingSlashes(_)
StripTrailingSlashes(cs) ==
  IF cs # <<>> /\ cs[Len(cs)] = "/"
  THEN StripTrailingSlashes(SubSeq(cs, 1, Len(cs) - 1))
  ELSE cs

NormalizePermalink(metadata) ==
  IF Has(metadata, "permalink") /\ metadata.permalink # <<>>
  THEN Some(StripTrailingSlashes(StripLeadingSlashes(metadata.permalink)))
  ELSE NULL

\* Mutant: the document's content is the description instead of the body.
SearchDocumentOfDescription(blobId, path, body, metadata) ==
  [title       |-> metadata.title,
   content     |-> metadata.description,
   path        |-> path,
   description |-> metadata.description,
   authors     |-> IF Has(metadata, "authors") THEN Some(metadata.authors)
                   ELSE NULL,
   date        |-> IF Has(metadata, "date") /\ metadata.date # ""
                   THEN Some(EpochSeconds(metadata.date)) ELSE NULL,
   id          |-> blobId]

\* The document indexInTypesense builds.
SearchDocument(blobId, path, body, metadata) ==
  [title       |-> metadata.title,
   content     |-> body,
   path        |-> path,
   description |-> metadata.description,
   authors     |-> IF Has(metadata, "authors") THEN Some(metadata.authors)
                   ELSE NULL,
   date        |-> IF Has(metadata, "date") /\ metadata.date # ""
                   THEN Some(EpochSeconds(metadata.date)) ELSE NULL,
   id          |-> blobId]

IndexUpsert(siteId, document) ==
  (<<siteId, document.id>> :> document) @@ index

IndexDelete(siteId, blobId) ==
  [d \in DOMAIN index \ {<<siteId, blobId>>} |-> index[d]]

\* ---------------------------------------------------- the queue consumer
InFlight(t) == pc[t] \notin {"idle", "done"}

Done(t) == pc[t] = "done"

\* The batch of t carried no other message.
Alone(t) == \A u \in Tasks \ {t} : pc[u] = "idle"

\* Every call t made succeeded.
NoCallFailed(t) == \A i \in 1..Len(log[t]) : log[t][i].ok

\* What the batch that just ended did, when it carried a single message:
\* its key, whether it was acknowledged, whether every call succeeded, and
\* the object it fetched.  NULL after a batch of two and before any batch.
LastHandling ==
  { [key |-> msgKey[t], acked |-> acked[t], clean |-> NoCallFailed(t),
     resp |-> loc[t].resp] : t \in {u \in Tasks : Done(u) /\ Alone(u)} }

\* Task t is suspended at the await named label and may resume: no
\* continuation runs before map() has started every task of the batch.
Resumes(t, label) ==
  /\ pc[t] = label
  /\ \A u \in Tasks : pc[u] # "start"

\* queue(batch, env, ctx): one handleMessage task per message, all started
\* before any of them resumes (Promise.all over batch.messages.map).
Queue ==
  /\ \A t \in Tasks : ~InFlight(t)
  /\ outcome # "pending"
  /\ \E n \in 1..Min(Cardinality(Tasks), MaxDeliveries - nDelivered) :
     \E keys \in [1..n -> MessageKeys] :
       /\ nDelivered' = nDelivered + n
       /\ IF ~validateEnv(env)
          THEN /\ outcome' = "rejected"
               /\ pc' = [t \in Tasks |-> "idle"]
               /\ msgKey' = [t \in Tasks |-> <<>>]
          ELSE /\ outcome' = "pending"
               /\ pc' = [t \in Tasks |-> IF t <= n THEN "start" ELSE "idle"]
               /\ msgKey' = [t \in Tasks |-> IF t <= n THEN keys[t] ELSE <<>>]
  /\ loc' = [t \in Tasks |-> NoLocals]
  /\ acked' = [t \in Tasks |-> FALSE]
  /\ raised' = [t \in Tasks |-> NULL]
  /\ log' = [t \in Tasks |-> <<>>]
  /\ pre' = [Blob |-> Blob, bucket |-> bucket, index |-> index,
             nUploads |-> nUploads, last |-> LastHandling]
  /\ UNCHANGED http
  /\ UNCHANGED env
  /\ UNCHANGED <<storageType, bucket, Blob, index, nUploads>>

\* The uploader (not part of the worker) replaces the object under KeyDoc.
Upload ==
  /\ nUploads < MaxUploads
  /\ \E o \in Objects :
       /\ o # (IF KeyDoc \in DOMAIN bucket THEN bucket[KeyDoc] ELSE ImageObject)
       /\ bucket' = (KeyDoc :> o) @@ bucket
  /\ nUploads' = nUploads + 1
  /\ UNCHANGED http
  /\ UNCHANGED invocation
  /\ UNCHANGED <<storageType, Blob, index, pc, msgKey, loc, acked, raised,
                 log, pre, nDelivered>>

\* handleMessage up to its first await: decode the key, test the identifiers,
\* the suffix and the reserved directory.  map() calls handleMessage for the
\* messages in order, each running to its first await.
HandleMessage(t) ==
  /\ pc[t] = "start"
  /\ \A u \in Tasks : u < t => pc[u] # "start"
  /\ LET m == MatchKey(msgKey[t])
     IN IF ~m.matched
        THEN /\ Caught(t, "Invalid key format: " \o Str(msgKey[t]))
             /\ UNCHANGED loc
        ELSE IF ~IsIdentifier(m.siteId) \/ ~IsIdentifier(m.branch)
        THEN /\ Caught(t, "Invalid siteId or branch: " \o Str(m.siteId)
                            \o ", " \o Str(m.branch))
             /\ UNCHANGED loc
        ELSE /\ loc' = [loc EXCEPT ![t].siteId = m.siteId,
                                   ![t].branch = m.branch,
                                   ![t].path = m.path]
             /\ IF ~IsMarkdownPath(m.path)
                THEN Goto(t, "nm_select") /\ UNCHANGED <<acked, raised>>
                ELSE IF IsInternalPath(m.path)
                THEN Ack(t)
                ELSE Goto(t, "pf_select") /\ UNCHANGED <<acked, raised>>
  /\ UNCHANGED http
  /\ UNCHANGED invocation
  /\ UNCHANGED <<storageType, bucket, Blob, index, msgKey, log, pre,
                 nDelivered, nUploads>>

\* Non-markdown file: getBlobId inside the inner try; its failure is logged
\* and the message acknowledged.
NonMarkdownSelect(t) ==
  /\ Resumes(t, "nm_select")
  /\ \/ \E id \in SelectLatest(loc[t].siteId, loc[t].path) :
          /\ loc' = [loc EXCEPT ![t].blobId = id]
          /\ log' = Logged(t, "getBlobId", TRUE)
          /\ Goto(t, "nm_update")
          /\ UNCHANGED <<acked, raised>>
     \/ /\ SelectLatest(loc[t].siteId, loc[t].path) = {}
        /\ log' = Logged(t, "getBlobId", FALSE)
        /\ Ack(t)
        /\ UNCHANGED loc
     \/ /\ log' = Logged(t, "getBlobId", FALSE)
        /\ Ack(t)
        /\ UNCHANGED loc
  /\ UNCHANGED http
  /\ UNCHANGED invocation
  /\ UNCHANGED <<storageType, bucket, Blob, index, msgKey, pre, nDelivered,
                 nUploads>>

\* Mutant: the non-markdown update writes the status of the pipeline's
\* first update.
DirectProcessing == [sync_status |-> "PROCESSING", sync_error |-> NULL]

DirectSuccess == [sync_status |-> "SUCCESS", sync_error |-> NULL]

\* Non-markdown file: UPDATE ... SET sync_status = 'SUCCESS', sync_error =
\* NULL, then msg.ack() whether or not the update failed.
NonMarkdownUpdate(t) ==
  /\ Resumes(t, "nm_update")
  /\ \/ /\ Blob' = UpdateRow(loc[t].blobId, DirectSuccess)
        /\ log' = Logged(t, "update SUCCESS", TRUE)
     \/ /\ log' = Logged(t, "update SUCCESS", FALSE)
        /\ UNCHANGED Blob
  /\ Ack(t)
  /\ UNCHANGED http
  /\ UNCHANGED invocation
  /\ UNCHANGED <<storageType, bucket, index, msgKey, loc, pre, nDelivered,
                 nUploads>>

\* ------------------------------------------------------------ processFile
\* Mutant: the try block has no catch: a failure ends processFile without
\* the ERROR update.
FailUnrecorded(t, message) ==
  /\ loc' = [loc EXCEPT ![t].e = Some(message)]
  /\ Goto(t, "done")

\* Mutant: the catch block awaits a promise that never settles, so that the
\* task stays suspended.
FailHanging(t, message) ==
  /\ loc' = [loc EXCEPT ![t].e = Some(message)]
  /\ Goto(t, "pf_hung")

\* Taking the catch branch of processFile with error message e.
Fail(t, message) ==
  /\ loc' = [loc EXCEPT ![t].e = Some(message)]
  /\ Goto(t, "pf_error")

\* Mutant: getBlobId returns rows[0]?.id without the length test, so that
\* processFile goes on with no id.
GetBlobIdUnchecked(t) ==
  /\ Resumes(t, "pf_select")
  /\ \/ \E id \in SelectLatest(loc[t].siteId, loc[t].path) :
          /\ loc' = [loc EXCEPT ![t].blobId = id]
          /\ log' = Logged(t, "getBlobId", TRUE)
          /\ Goto(t, "pf_mark")
          /\ UNCHANGED <<acked, raised>>
     \/ /\ SelectLatest(loc[t].siteId, loc[t].path) = {}
        /\ log' = Logged(t, "getBlobId", TRUE)
        /\ Goto(t, "pf_mark")
        /\ UNCHANGED <<loc, acked, raised>>
     \/ /\ log' = Logged(t, "getBlobId", FALSE)
        /\ Caught(t, CatalogErrorMessage)
        /\ UNCHANGED loc
  /\ UNCHANGED http
  /\ UNCHANGED invocation
  /\ UNCHANGED <<storageType, bucket, Blob, index, msgKey, pre, nDelivered,
                 nUploads>>

\* const blobId = await getBlobId(sql, siteId, path), outside the try: a
\* failure goes straight to the catch of handleMessage.
GetBlobId(t) ==
  /\ Resumes(t, "pf_select")
  /\ \/ \E id \in SelectLatest(loc[t].siteId, loc[t].path) :
          /\ loc' = [loc EXCEPT ![t].blobId = id]
          /\ log' = Logged(t, "getBlobId", TRUE)
          /\ Goto(t, "pf_mark")
          /\ UNCHANGED <<acked, raised>>
     \/ /\ SelectLatest(loc[t].siteId, loc[t].path) = {}
        /\ log' = Logged(t, "getBlobId", FALSE)
        /\ Caught(t, NoBlobMessage(loc[t].path))
        /\ UNCHANGED loc
     \/ /\ log' = Logged(t, "getBlobId", FALSE)
        /\ Caught(t, CatalogErrorMessage)
        /\ UNCHANGED loc
  /\ UNCHANGED http
  /\ UNCHANGED invocation
  /\ UNCHANGED <<storageType, bucket, Blob, index, msgKey, pre, nDelivered,
                 nUploads>>

Processing == [sync_status |-> "PROCESSING"]

\* Mutant: the PROCESSING update is best effort, its failure swallowed.
MarkProcessingBestEffort(t) ==
  /\ Resumes(t, "pf_mark")
  /\ \/ /\ Blob' = UpdateRow(loc[t].blobId, Processing)
        /\ log' = Logged(t, "update PROCESSING", TRUE)
     \/ /\ log' = Logged(t, "update PROCESSING", FALSE)
        /\ UNCHANGED Blob
  /\ Goto(t, "pf_get")
  /\ UNCHANGED http
  /\ UNCHANGED invocation
  /\ UNCHANGED <<storageType, bucket, index, msgKey, loc, acked, raised, pre,
                 nDelivered, nUploads>>

\* UPDATE "Blob" SET sync_status = 'PROCESSING' WHERE id = blobId, still
\* outside the try.
MarkProcessing(t) ==
  /\ Resumes(t, "pf_mark")
  /\ \/ /\ Blob' = UpdateRow(loc[t].blobId, Processing)
        /\ log' = Logged(t, "update PROCESSING", TRUE)
        /\ Goto(t, "pf_get")
        /\ UNCHANGED <<acked, raised>>
     \/ /\ log' = Logged(t, "update PROCESSING", FALSE)
        /\ Caught(t, CatalogErrorMessage)
        /\ UNCHANGED Blob
  /\ UNCHANGED http
  /\ UNCHANGED invocation
  /\ UNCHANGED <<storageType, bucket, index, msgKey, loc, pre, nDelivered,
                 nUploads>>

\* Mutant: the ceiling is taken in bits.
TooLargeInBits(length) == length > MAX_FILE_BYTES * 8

\* Mutant: an object of exactly the ceiling is refused.
TooLargeAtCeiling(length) == length >= MAX_FILE_BYTES

\* length > MAX_FILE_BYTES
TooLarge(length) == length > MAX_FILE_BYTES

\* The message thrown for an absent object: the SDK's NoSuchKey on S3, the
\* worker's own error for the null that R2's get returns.
MissingObjectMessage(key) ==
  IF storageType = "s3" THEN NoSuchKeyMessage ELSE NotFoundMessage(key)

\* storage.client.send(new GetObjectCommand(..)) / storage.client.get(key),
\* then the size test on ContentLength / size.
GetObject(t) ==
  /\ Resumes(t, "pf_get")
  /\ LET key == ObjectKey(loc[t].siteId, loc[t].branch, loc[t].path)
     IN \/ /\ log' = Logged(t, "get", FALSE)
           /\ Fail(t, StorageErrorMessage)
        \/ /\ key \notin DOMAIN bucket
           /\ log' = Logged(t, "get", FALSE)
           /\ Fail(t, MissingObjectMessage(key))
        \/ /\ key \in DOMAIN bucket
           /\ LET resp == bucket[key]
              IN /\ log' = [log EXCEPT ![t] =
                              @ \o <<Call("get", TRUE),
                                     Call("size", ~TooLarge(resp.size))>>]
                 /\ IF TooLarge(resp.size)
                    THEN /\ loc' = [loc EXCEPT
                                      ![t].resp = Some(resp),
                                      ![t].e = Some(TooLargeMessage(resp.size))]
                         /\ Goto(t, "pf_error")
                    ELSE /\ loc' = [loc EXCEPT ![t].resp = Some(resp)]
                         /\ Goto(t, "pf_body")
  /\ UNCHANGED http
  /\ UNCHANGED invocation
  /\ UNCHANGED <<storageType, bucket, Blob, index, msgKey, acked, raised,
                 pre, nDelivered, nUploads>>

\* Mutant: the test reads a field the frontmatter never carries.
PublishedSuppressed(metadata) ==
  Has(metadata, "published") /\ metadata.published = "false"

\* metadata.publish === false
PublishSuppressed(metadata) ==
  Has(metadata, "publish") /\ metadata.publish = "false"

\* resp.Body.transformToString() / obj.text(), then parseMarkdownFile and
\* the publish test.
ReadAndParse(t) ==
  /\ Resumes(t, "pf_body")
  /\ \/ /\ log' = Logged(t, "body", FALSE)
        /\ Fail(t, StorageErrorMessage)
     \/ \E resp \in loc[t].resp :
          LET parsed == parseMarkdownFile(resp.text, loc[t].path)
          IN /\ log' = [log EXCEPT ![t] =
                          @ \o <<Call("body", TRUE), Call("parse", parsed.ok)>>]
             /\ IF ~parsed.ok
                THEN Fail(t, ParseErrorMessage)
                ELSE /\ loc' = [loc EXCEPT ![t].metadata = parsed.metadata,
                                           ![t].body = parsed.body]
                     /\ IF PublishSuppressed(parsed.metadata)
                        THEN Goto(t, "pf_delete_object")
                        ELSE Goto(t, "pf_persist")
  /\ UNCHANGED http
  /\ UNCHANGED invocation
  /\ UNCHANGED <<storageType, bucket, Blob, index, msgKey, acked, raised,
                 pre, nDelivered, nUploads>>

\* Mutant: the storage delete has no try/catch of its own, so that its
\* failure reaches the catch block of processFile.
DeleteObjectAborting(t) ==
  /\ Resumes(t, "pf_delete_object")
  /\ LET key == ObjectKey(loc[t].siteId, loc[t].branch, loc[t].path)
     IN \/ /\ bucket' = [k \in DOMAIN bucket \ {key} |-> bucket[k]]
           /\ log' = Logged(t, "delete object", TRUE)
           /\ Goto(t, "pf_delete_row")
           /\ UNCHANGED loc
        \/ /\ log' = Logged(t, "delete object", FALSE)
           /\ Fail(t, StorageErrorMessage)
           /\ UNCHANGED bucket
  /\ UNCHANGED http
  /\ UNCHANGED invocation
  /\ UNCHANGED <<storageType, Blob, index, msgKey, acked, raised, pre,
                 nDelivered, nUploads>>

\* publish: false, step 1: delete the object; a failure is logged only.
DeleteObject(t) ==
  /\ Resumes(t, "pf_delete_object")
  /\ LET key == ObjectKey(loc[t].siteId, loc[t].branch, loc[t].path)
     IN \/ /\ bucket' = [k \in DOMAIN bucket \ {key} |-> bucket[k]]
           /\ log' = Logged(t, "delete object", TRUE)
        \/ /\ log' = Logged(t, "delete object", FALSE)
           /\ UNCHANGED bucket
  /\ Goto(t, "pf_delete_row")
  /\ UNCHANGED http
  /\ UNCHANGED invocation
  /\ UNCHANGED <<storageType, Blob, index, msgKey, loc, acked, raised, pre,
                 nDelivered, nUploads>>

\* Mutant: the row delete is wrapped in a try/catch like the two removals
\* around it.
DeleteBlobBestEffort(t) ==
  /\ Resumes(t, "pf_delete_row")
  /\ \/ /\ Blob' = DeleteRow(loc[t].blobId)
        /\ log' = Logged(t, "delete row", TRUE)
     \/ /\ log' = Logged(t, "delete row", FALSE)
        /\ UNCHANGED Blob
  /\ Goto(t, "pf_delete_index")
  /\ UNCHANGED http
  /\ UNCHANGED invocation
  /\ UNCHANGED <<storageType, bucket, index, msgKey, loc, acked, raised, pre,
                 nDelivered, nUploads>>

\* publish: false, step 2: DELETE FROM "Blob" WHERE id = blobId.
DeleteBlob(t) ==
  /\ Resumes(t, "pf_delete_row")
  /\ \/ /\ Blob' = DeleteRow(loc[t].blobId)
        /\ log' = Logged(t, "delete row", TRUE)
        /\ Goto(t, "pf_delete_index")
        /\ UNCHANGED loc
     \/ /\ log' = Logged(t, "delete row", FALSE)
        /\ Fail(t, CatalogErrorMessage)
        /\ UNCHANGED Blob
  /\ UNCHANGED http
  /\ UNCHANGED invocation
  /\ UNCHANGED <<storageType, bucket, index, msgKey, acked, raised, pre,
                 nDelivered, nUploads>>

\* publish: false, step 3: remove the search document (failure logged),
\* return, and handleMessage acknowledges.
DeleteFromIndex(t) ==
  /\ Resumes(t, "pf_delete_index")
  /\ \/ /\ index' = IndexDelete(loc[t].siteId, loc[t].blobId)
        /\ log' = Logged(t, "index delete", TRUE)
     \/ /\ log' = Logged(t, "index delete", FALSE)
        /\ UNCHANGED index
  /\ Ack(t)
  /\ UNCHANGED http
  /\ UNCHANGED invocation
  /\ UNCHANGED <<storageType, bucket, Blob, msgKey, loc, pre, nDelivered,
                 nUploads>>

\* Mutant: the SUCCESS update leaves sync_status as it is.
SuccessKeepingStatus(metadata) ==
  [metadata    |-> metadata,
   permalink   |-> NormalizePermalink(metadata),
   sync_error  |-> NULL]

\* Mutant: the SUCCESS update forgets to clear sync_error.
SuccessKeepingError(metadata) ==
  [metadata    |-> metadata,
   permalink   |-> NormalizePermalink(metadata),
   sync_status |-> "SUCCESS"]

Success(metadata) ==
  [metadata    |-> metadata,
   permalink   |-> NormalizePermalink(metadata),
   sync_status |-> "SUCCESS",
   sync_error  |-> NULL]

\* Mutant: the SUCCESS update is not awaited inside the try, so that the
\* upsert follows whether or not the update succeeded.
UpdateMetadataBestEffort(t) ==
  /\ Resumes(t, "pf_persist")
  /\ \/ /\ Blob' = UpdateRow(loc[t].blobId, Success(loc[t].metadata))
        /\ log' = Logged(t, "update SUCCESS", TRUE)
     \/ /\ log' = Logged(t, "update SUCCESS", FALSE)
        /\ UNCHANGED Blob
  /\ Goto(t, "pf_index")
  /\ UNCHANGED http
  /\ UNCHANGED invocation
  /\ UNCHANGED <<storageType, bucket, index, msgKey, loc, acked, raised, pre,
                 nDelivered, nUploads>>

\* UPDATE "Blob" SET metadata, permalink, sync_status = 'SUCCESS',
\* sync_error = NULL WHERE id = blobId.
UpdateMetadata(t) ==
  /\ Resumes(t, "pf_persist")
  /\ \/ /\ Blob' = UpdateRow(loc[t].blobId, Success(loc[t].metadata))
        /\ log' = Logged(t, "update SUCCESS", TRUE)
        /\ Goto(t, "pf_index")
        /\ UNCHANGED loc
     \/ /\ log' = Logged(t, "update SUCCESS", FALSE)
        /\ Fail(t, CatalogErrorMessage)
        /\ UNCHANGED Blob
  /\ UNCHANGED http
  /\ UNCHANGED invocation
  /\ UNCHANGED <<storageType, bucket, index, msgKey, acked, raised, pre,
                 nDelivered, nUploads>>

\* Mutant: indexInTypesense without its try/catch, so that a failed upsert
\* reaches the catch block of processFile.
indexInTypesenseThrowing(t) ==
  /\ Resumes(t, "pf_index")
  /\ \/ /\ index' = IndexUpsert(loc[t].siteId,
                       SearchDocument(loc[t].blobId, loc[t].path,
                                      loc[t].body, loc[t].metadata))
        /\ log' = Logged(t, "index upsert", TRUE)
        /\ Ack(t)
        /\ UNCHANGED loc
     \/ /\ log' = Logged(t, "index upsert", FALSE)
        /\ Fail(t, "typesense: request failed")
        /\ UNCHANGED <<index, acked, raised>>
  /\ UNCHANGED http
  /\ UNCHANGED invocation
  /\ UNCHANGED <<storageType, bucket, Blob, msgKey, pre, nDelivered,
                 nUploads>>

\* indexInTypesense: upsert, any failure swallowed; processFile returns and
\* handleMessage acknowledges.
indexInTypesense(t) ==
  /\ Resumes(t, "pf_index")
  /\ \/ /\ index' = IndexUpsert(loc[t].siteId,
                       SearchDocument(loc[t].blobId, loc[t].path,
                                      loc[t].body, loc[t].metadata))
        /\ log' = Logged(t, "index upsert", TRUE)
     \/ /\ log' = Logged(t, "index upsert", FALSE)
        /\ UNCHANGED index
  /\ Ack(t)
  /\ UNCHANGED http
  /\ UNCHANGED invocation
  /\ UNCHANGED <<storageType, bucket, Blob, msgKey, loc, pre, nDelivered,
                 nUploads>>

\* Mutant: the ERROR update writes a fixed text instead of e.message.
ErrorWithFixedText(message) ==
  [sync_status |-> "ERROR", sync_error |-> Some("Processing failed")]

\* Mutant: the ERROR update drops the message.
ErrorWithoutMessage(message) == [sync_status |-> "ERROR", sync_error |-> NULL]

Error(message) == [sync_status |-> "ERROR", sync_error |-> Some(message)]

\* The catch block of processFile: UPDATE ... sync_status = 'ERROR',
\* sync_error = e.message, then throw e; when the update itself fails, its
\* error is the one that reaches handleMessage.
UpdateError(t) ==
  /\ Resumes(t, "pf_error")
  /\ \E e \in loc[t].e :
       \/ /\ Blob' = UpdateRow(loc[t].blobId, Error(e))
          /\ log' = Logged(t, "update ERROR", TRUE)
          /\ Caught(t, e)
       \/ /\ log' = Logged(t, "update ERROR", FALSE)
          /\ Caught(t, CatalogErrorMessage)
          /\ UNCHANGED Blob
  /\ UNCHANGED http
  /\ UNCHANGED invocation
  /\ UNCHANGED <<storageType, bucket, index, msgKey, loc, pre, nDelivered,
                 nUploads>>

Step(t) ==
  \/ HandleMessage(t)
  \/ NonMarkdownSelect(t)
  \/ NonMarkdownUpdate(t)
  \/ GetBlobId(t)
  \/ MarkProcessing(t)
  \/ GetObject(t)
  \/ ReadAndParse(t)
  \/ DeleteObject(t)
  \/ DeleteBlob(t)
  \/ DeleteFromIndex(t)
  \/ UpdateMetadata(t)
  \/ indexInTypesense(t)
  \/ UpdateError(t)

\* await Promise.all(...): the promise of queue() rejects as soon as a
\* handler has rejected, and resolves once every handler has resolved.
QueueReturns ==
  /\ outcome = "pending"
  /\ IF \E t \in Tasks : pc[t] = "threw"
     THEN outcome' = "rejected"
     ELSE /\ \A t \in Tasks : ~InFlight(t)
          /\ outcome' = "resolved"
  /\ UNCHANGED <<storageType, bucket, Blob, index, pc, msgKey, loc, acked,
                 raised, log, pre, nDelivered, nUploads, request, response,
                 queued, env>>

Next == Queue \/ QueueReturns \/ Upload \/ \E t \in Tasks : Step(t)

Spec == Init /\ [][Next]_vars

\* Fair scheduling: the call a task awaits returns, with a result or with a
\* failure, and the continuation of the task runs; the continuation of
\* queue() runs once Promise.all has settled.
Fairness ==
  /\ WF_vars(QueueReturns)
  /\ \A t \in Tasks : WF_vars(Step(t))

\* -------------------------------------------------- the HTTP entry point
HexDigits ==
  {"0","1","2","3","4","5","6","7","8","9","a","b","c","d","e","f",
   "A","B","C","D","E","F"}

\* The character an escape %xy stands for, for the escapes the keys use.
EscapedChar(x, y) ==
  CASE <<x, y>> = <<"2","0">> -> " "
    [] <<x, y>> \in {<<"2","B">>, <<"2","b">>} -> "+"
    [] <<x, y>> \in {<<"2","F">>, <<"2","f">>} -> "/"
    [] <<x, y>> = <<"2","5">> -> "%"
    [] OTHER -> "?"

\* decodeURIComponent: [ok, value]; a % not followed by two hexadecimal
\* digits throws URIError.
RECURSIVE decodeURIComponent(_)
decodeURIComponent(cs) ==
  IF cs = <<>> THEN [ok |-> TRUE, value |-> <<>>]
  ELSE IF Head(cs) # "%"
  THEN LET rest == decodeURIComponent(Tail(cs))
       IN [ok |-> rest.ok, value |-> <<Head(cs)>> \o rest.value]
  ELSE IF Len(cs) < 3 \/ cs[2] \notin HexDigits \/ cs[3] \notin HexDigits
  THEN [ok |-> FALSE, value |-> <<>>]
  ELSE LET rest == decodeURIComponent(SubSeq(cs, 4, Len(cs)))
       IN [ok |-> rest.ok,
           value |-> <<EscapedChar(cs[2], cs[3])>> \o rest.value]

\* Mutant: the key is percent-decoded as it is.
PlusKept(cs) == cs

\* rawKey.replace(/\+/g, " ")
PlusToSpace(cs) == [i \in 1..Len(cs) |-> IF cs[i] = "+" THEN " " ELSE cs[i]]

\* The keys an event envelope may carry: under s1/m/raw/, one or two of the
\* pieces a, +, %20, %2B and a lone %, then .md; the same key with its
\* slashes escaped; the empty key.
KeyPieces ==
  {<<"a">>, <<"+">>, <<"%","2","0">>, <<"%","2","B">>, <<"%">>}

EnvelopeKeys ==
  {ObjectKey(Site1, Branch, p \o <<".","m","d">>) : p \in KeyPieces}
    \cup {ObjectKey(Site1, Branch, p \o q \o <<".","m","d">>) :
            p \in KeyPieces, q \in KeyPieces}
    \cup {<<"s","1","%","2","F","m","%","2","F","r","a","w","%","2","F",
            "a",".","m","d">>, <<>>}

\* request.json(): not JSON; JSON without Records[0].s3.object.key; JSON
\* with that key.
Bodies ==
  {[json |-> FALSE, key |-> NULL], [json |-> TRUE, key |-> NULL]}
    \cup {[json |-> TRUE, key |-> Some(k)] : k \in EnvelopeKeys}

Requests ==
  [env : [DATABASE_URL : BOOLEAN, ENVIRONMENT : {"dev", "production"}],
   pathname : {"/queue", "/health", "/"},
   body : Bodies]

\* new Response(text, {status}); an exception that leaves fetch is answered
\* by the runtime with status 500.
Response(status, text) == [status |-> status, text |-> text, threw |-> FALSE]
Thrown(message) == [status |-> 500, text |-> message, threw |-> TRUE]

SendErrorMessage == "queue: send failed"

\* fetch(request, env, ctx)
Fetch ==
  /\ request # NoRequest
  /\ response = NULL
  /\ IF ~validateEnv(request.env)
     THEN /\ response' = Some(Thrown(EnvErrorMessage))
          /\ UNCHANGED queued
     ELSE IF request.env.ENVIRONMENT = "dev" /\ request.pathname = "/queue"
     THEN IF ~request.body.json
          THEN /\ response' = Some(Response(400, "Invalid JSON"))
               /\ UNCHANGED queued
          ELSE IF request.body.key \in {NULL, Some(<<>>)}
          THEN /\ response' = Some(Response(400, "Bad S3 event"))
               /\ UNCHANGED queued
          ELSE \E rawKey \in request.body.key :
                 LET decodedKey == decodeURIComponent(PlusToSpace(rawKey))
                 IN IF ~decodedKey.ok
                    THEN /\ response' = Some(Thrown("URI malformed"))
                         /\ UNCHANGED queued
                    ELSE \/ /\ queued' = Append(queued,
                                                [key |-> decodedKey.value])
                            /\ response' = Some(Response(200, "Queued"))
                         \/ /\ response' = Some(Thrown(SendErrorMessage))
                            /\ UNCHANGED queued
     ELSE IF request.pathname = "/health"
     THEN /\ response' = Some(Response(200, "OK"))
          /\ UNCHANGED queued
     ELSE /\ response' = Some(Response(404, "Not Found"))
          /\ UNCHANGED queued
  /\ UNCHANGED <<storageType, bucket, Blob, index, pc, msgKey, loc, acked,
                 raised, log, pre, nDelivered, nUploads, request, env,
                 outcome>>

\* queue(batch, env, ctx) invoked with the message at the head of
\* FILE_PROCESSOR_QUEUE.
Deliver ==
  /\ queued # <<>>
  /\ \A t \in Tasks : ~InFlight(t)
  /\ outcome # "pending"
  /\ IF ~validateEnv(env)
     THEN /\ outcome' = "rejected"
          /\ pc' = [t \in Tasks |-> "idle"]
          /\ msgKey' = [t \in Tasks |-> <<>>]
     ELSE /\ outcome' = "pending"
          /\ pc' = [t \in Tasks |-> IF t = 1 THEN "start" ELSE "idle"]
          /\ msgKey' = [t \in Tasks |->
                          IF t = 1 THEN Head(queued).key ELSE <<>>]
  /\ queued' = Tail(queued)
  /\ nDelivered' = nDelivered + 1
  /\ loc' = [t \in Tasks |-> NoLocals]
  /\ acked' = [t \in Tasks |-> FALSE]
  /\ raised' = [t \in Tasks |-> NULL]
  /\ log' = [t \in Tasks |-> <<>>]
  /\ pre' = [Blob |-> Blob, bucket |-> bucket, index |-> index,
             nUploads |-> nUploads, last |-> LastHandling]
  /\ UNCHANGED <<storageType, bucket, Blob, index, nUploads, request,
                 response, env>>

\* The keys a bucket notification may put on the queue without the HTTP
\* entry point: two segments of up to two characters, then /raw/, / or
\* /raws/, then a path.
SegmentChars == {"s", "_", "-", ".", "/"}

Segments ==
  {<<>>} \cup {<<c>> : c \in SegmentChars}
    \cup {<<c, d>> : c \in SegmentChars, d \in SegmentChars}

Separators ==
  {<<"/","r","a","w","/">>, <<"/">>, <<"/","r","a","w","s","/">>}

NotifiedPaths ==
  { <<>>, <<"c">>, <<"c",".","m","d">>, <<"x","\n","y",".","m","d">>,
    <<"a","+","b",".","m","d">>, <<"a","%","2","0","b",".","m","d">>,
    <<"r","/","r","a","w","/","c",".","m","d">> }

NotifiedKeys ==
  { a \o <<"/">> \o b \o sep \o path :
      a \in Segments, b \in Segments, sep \in Separators,
      path \in NotifiedPaths }

\* Either an HTTP request is about to be handled, or a bucket notification
\* is on the queue; the stores are as in Init and no task runs.
InitKeys ==
  /\ \/ /\ request \in Requests
        /\ queued = <<>>
        /\ storageType = IF request.env.ENVIRONMENT = "dev" THEN "s3"
                         ELSE "r2"
        /\ env = [DATABASE_URL |-> request.env.DATABASE_URL]
     \/ /\ request = NoRequest
        /\ queued \in {<<[key |-> k]>> : k \in NotifiedKeys}
        /\ storageType = "r2"
        /\ env \in [DATABASE_URL : BOOLEAN]
  /\ response = NULL
  /\ outcome = "none"
  /\ bucket = [k \in {KeyDoc, KeyImg} |->
                IF k = KeyDoc THEN FirstObject ELSE ImageObject]
  /\ Blob = InitialBlob
  /\ index = <<>>
  /\ pc = [t \in Tasks |-> "idle"]
  /\ msgKey = [t \in Tasks |-> <<>>]
  /\ loc = [t \in Tasks |-> NoLocals]
  /\ acked = [t \in Tasks |-> FALSE]
  /\ raised = [t \in Tasks |-> NULL]
  /\ log = [t \in Tasks |-> <<>>]
  /\ pre = [Blob |-> InitialBlob, bucket |-> <<>>, index |-> <<>>,
            nUploads |-> 0, last |-> NULL]
  /\ nDelivered = 0
  /\ nUploads = 0

NextKeys == Fetch \/ Deliver \/ \E t \in Tasks : HandleMessage(t)

SpecKeys == InitKeys /\ [][NextKeys]_vars

\* ------------------------------------------------- the parser on its own
\* The texts and paths parseMarkdownFile is applied to: every combination
\* of a frontmatter (title and description absent, empty or given, with or
\* without a YAML comment line), a first line of the body, a paragraph
\* (none, short, of 200 and of 201 characters) and, or not, a lead
\* paragraph set off from it by a thematic break.
LongParagraph(n) ==
  [i \in 1..n |-> IF i % 7 = 0 THEN " " ELSE IF i > DescriptionChars THEN "z"
                  ELSE "x"]

Paragraphs ==
  {<<>>, <<"p"," ","q">>, LongParagraph(DescriptionChars),
   LongParagraph(DescriptionChars + 1)}

HeadingLines ==
  { <<>>,
    <<"#"," ","H"," ","*","w","*">>,
    <<"#"," ","[","[","A","]","]"," ","b"," ","[","[","C","]","]">>,
    <<"#"," ","[","t","]","(","u",")">>,
    <<"#","#"," ","s">>,
    <<"#","x">>,
    <<"#"," ","*","*">> }

Frontmatters ==
  { t @@ d : t \in {<<>>, [title |-> ""], [title |-> "T"]},
             d \in {<<>>, [description |-> ""], [description |-> "D"]} }

CommentLine == <<"#"," ","c">>
LeadParagraph == <<"l","e","a","d">>
BlankLine == <<"\n","\n">>

Texts ==
  { [malformed |-> FALSE,
     fm        |-> fm,
     fmRaw     |-> IF comment THEN FrontmatterBlock(CommentLine)
                   ELSE IF fm # <<>> THEN FrontmatterBlock(FieldLine)
                   ELSE <<>>,
     content   |-> (IF h = <<>> THEN <<>> ELSE h \o BlankLine)
                     \o (IF rule
                         THEN LeadParagraph \o BlankLine \o Fence \o BlankLine
                         ELSE <<>>)
                     \o para] :
      fm \in Frontmatters, comment \in BOOLEAN, h \in HeadingLines,
      rule \in BOOLEAN, para \in Paragraphs }

ParserPaths ==
  { <<"d","/","t",".","m","d">>, <<"n",".","M","D">>,
    <<"x",".","m","d","x">>, <<"d","/",".","m","d">> }

\* processFile has looked the row up, marked it, and fetched the object: a
\* task at the await of the body, for each text and path.
InitParser ==
  /\ storageType = "s3"
  /\ \E text \in Texts, path \in ParserPaths :
       LET key == ObjectKey(Site1, Branch, path)
           object == [text |-> text, size |-> 100]
           row == [InitialBlob["b1"] EXCEPT !.path = path]
       IN /\ bucket = (key :> object)
          /\ Blob = [id \in {"b1"} |->
                       [row EXCEPT !.sync_status = "PROCESSING"]]
          /\ msgKey = [t \in Tasks |-> IF t = 1 THEN key ELSE <<>>]
          /\ loc = [t \in Tasks |->
                      IF t = 1
                      THEN [NoLocals EXCEPT !.siteId = Site1,
                                            !.branch = Branch,
                                            !.path = path,
                                            !.blobId = "b1",
                                            !.resp = Some(object)]
                      ELSE NoLocals]
          /\ pre = [Blob |-> [id \in {"b1"} |-> row], bucket |-> bucket,
                    index |-> <<>>, nUploads |-> 0, last |-> NULL]
  /\ index = <<>>
  /\ pc = [t \in Tasks |-> IF t = 1 THEN "pf_body" ELSE "idle"]
  /\ acked = [t \in Tasks |-> FALSE]
  /\ raised = [t \in Tasks |-> NULL]
  /\ log = [t \in Tasks |->
              IF t = 1
              THEN <<Call("getBlobId", TRUE), Call("update PROCESSING", TRUE),
                     Call("get", TRUE), Call("size", TRUE)>>
              ELSE <<>>]
  /\ nDelivered = 1
  /\ nUploads = 0
  /\ request = NoRequest
  /\ response = NULL
  /\ queued = <<>>
  /\ env = [DATABASE_URL |-> TRUE]
  /\ outcome = "pending"

NextParser == \E t \in Tasks : ReadAndParse(t)

SpecParser == InitParser /\ [][NextParser]_vars

\* --------------------------------------------- the permalink on its own
\* The permalinks a frontmatter may carry: every string of up to
\* MaxPermalinkLen characters over a slash and a letter.
MaxPermalinkLen == 4

PermalinkChars == {"/", "p"}

Permalinks ==
  UNION {[1..n -> PermalinkChars] : n \in 0..MaxPermalinkLen}

\* The frontmatters of the documents: title and description, with or
\* without a permalink.
PermalinkFrontmatters ==
  LET base == [title |-> "Test Article", description |-> "A test"]
  IN {base} \cup {("permalink" :> pl) @@ base : pl \in Permalinks}

\* processFile has fetched a document of the row b1, which is PROCESSING
\* and has no permalink or the permalink of an earlier version.
InitPermalink ==
  /\ storageType = "r2"
  /\ \E fm \in PermalinkFrontmatters, old \in {NULL, Some(<<"o","/">>)} :
       LET object == [text |-> [DocV1 EXCEPT !.fm = fm], size |-> 100]
           row == [InitialBlob["b1"] EXCEPT !.permalink = old]
       IN /\ bucket = (KeyDoc :> object)
          /\ Blob = [id \in {"b1"} |->
                       [row EXCEPT !.sync_status = "PROCESSING"]]
          /\ loc = [t \in Tasks |->
                      IF t = 1
                      THEN [NoLocals EXCEPT !.siteId = Site1,
                                            !.branch = Branch,
                                            !.path = PathDoc,
                                            !.blobId = "b1",
                                            !.resp = Some(object)]
                      ELSE NoLocals]
          /\ pre = [Blob |-> [id \in {"b1"} |-> row], bucket |-> bucket,
                    index |-> <<>>, nUploads |-> 0, last |-> NULL]
  /\ msgKey = [t \in Tasks |-> IF t = 1 THEN KeyDoc ELSE <<>>]
  /\ index = <<>>
  /\ pc = [t \in Tasks |-> IF t = 1 THEN "pf_body" ELSE "idle"]
  /\ acked = [t \in Tasks |-> FALSE]
  /\ raised = [t \in Tasks |-> NULL]
  /\ log = [t \in Tasks |->
              IF t = 1
              THEN <<Call("getBlobId", TRUE), Call("update PROCESSING", TRUE),
                     Call("get", TRUE), Call("size", TRUE)>>
              ELSE <<>>]
  /\ nDelivered = 1
  /\ nUploads = 0
  /\ request = NoRequest
  /\ response = NULL
  /\ queued = <<>>
  /\ env = [DATABASE_URL |-> TRUE]
  /\ outcome = "pending"

NextPermalink ==
  \E t \in Tasks :
    \/ ReadAndParse(t)
    \/ UpdateMetadata(t)
    \/ indexInTypesense(t)
    \/ UpdateError(t)

SpecPermalink == InitPermalink /\ [][NextPermalink]_vars

\* ------------------------------------------- a catalog of several sites
\* A second site, which holds a document under the same path as the first.
Site2 == <<"s","2">>

\* The rows of the catalog: two rows of the first site for a.md, of which
\* b4 is the later, the row of the second site for a.md, and the rows of
\* both sites for i.png.
CatalogRows ==
  [id \in {"b1", "b2", "b4", "b5", "b6"} |->
     [site_id     |-> IF id \in {"b5", "b6"} THEN Site2 ELSE Site1,
      path        |-> IF id \in {"b2", "b6"} THEN PathImg ELSE PathDoc,
      created_at  |-> CASE id = "b1" -> 1 [] id = "b2" -> 2 [] id = "b4" -> 4
                        [] id = "b5" -> 5 [] OTHER -> 6,
      metadata    |-> <<>>,
      permalink   |-> NULL,
      sync_status |-> "PENDING",
      sync_error  |-> NULL]]

\* The keys of the notifications: a.md and i.png of each site.
CatalogKeys ==
  {ObjectKey(site, Branch, path) :
     site \in {Site1, Site2}, path \in {PathDoc, PathImg}}

\* queue() was invoked with a batch of one or two of those notifications
\* and has started their handlers; the document of the first site is
\* published or not.
InitCatalog ==
  /\ storageType \in {"s3", "r2"}
  /\ \E o \in {FirstObject, [text |-> DocUnpublished, size |-> 100]} :
       bucket = (ObjectKey(Site1, Branch, PathDoc) :> o)
                  @@ (ObjectKey(Site2, Branch, PathDoc) :> FirstObject)
  /\ Blob = CatalogRows
  /\ index = <<>>
  /\ \E n \in 1..Cardinality(Tasks) : \E keys \in [1..n -> CatalogKeys] :
       /\ pc = [t \in Tasks |-> IF t <= n THEN "start" ELSE "idle"]
       /\ msgKey = [t \in Tasks |-> IF t <= n THEN keys[t] ELSE <<>>]
       /\ nDelivered = n
  /\ loc = [t \in Tasks |-> NoLocals]
  /\ acked = [t \in Tasks |-> FALSE]
  /\ raised = [t \in Tasks |-> NULL]
  /\ log = [t \in Tasks |-> <<>>]
  /\ pre = [Blob |-> Blob, bucket |-> bucket, index |-> index,
            nUploads |-> 0, last |-> NULL]
  /\ nUploads = 0
  /\ request = NoRequest
  /\ response = NULL
  /\ queued = <<>>
  /\ env = [DATABASE_URL |-> TRUE]
  /\ outcome = "pending"

NextCatalog == QueueReturns \/ \E t \in Tasks : Step(t)

SpecCatalog == InitCatalog /\ [][NextCatalog]_vars

\* ------------------------------------------------ one batch, scheduled fairly
\* The keys of the messages of the batch: a document, a file that is not
\* markdown, a markdown path without a row, and a key that does not decode.
BatchKeys == {KeyDoc, KeyImg, KeyNoRowMd, KeyNoRaw}

\* queue() was invoked with a batch of one or two messages and has started
\* their handlers; the object stored under KeyDoc is any of Objects.
InitBatch ==
  /\ storageType \in {"s3", "r2"}
  /\ \E o \in Objects :
       bucket = [k \in {KeyDoc, KeyImg} |->
                   IF k = KeyDoc THEN o ELSE ImageObject]
  /\ Blob = InitialBlob
  /\ index = <<>>
  /\ \E n \in 1..Cardinality(Tasks) : \E keys \in [1..n -> BatchKeys] :
       /\ pc = [t \in Tasks |-> IF t <= n THEN "start" ELSE "idle"]
       /\ msgKey = [t \in Tasks |-> IF t <= n THEN keys[t] ELSE <<>>]
       /\ nDelivered = n
  /\ loc = [t \in Tasks |-> NoLocals]
  /\ acked = [t \in Tasks |-> FALSE]
  /\ raised = [t \in Tasks |-> NULL]
  /\ log = [t \in Tasks |-> <<>>]
  /\ pre = [Blob |-> Blob, bucket |-> bucket, index |-> index,
            nUploads |-> 0, last |-> NULL]
  /\ nUploads = 0
  /\ request = NoRequest
  /\ response = NULL
  /\ queued = <<>>
  /\ env = [DATABASE_URL |-> TRUE]
  /\ outcome = "pending"

NextBatch == QueueReturns \/ \E t \in Tasks : Step(t)

SpecBatchFair == InitBatch /\ [][NextBatch]_vars /\ Fairness

\* ================================================================ claims
\* t ran by itself and no upload happened since its batch started.
Solo(t) == Alone(t) /\ nUploads = pre.nUploads

\* The key of t's message passes the shape match and the identifier test.
Decoded(t) ==
  LET m == MatchKey(msgKey[t])
  IN m.matched /\ IsIdentifier(m.siteId) /\ IsIdentifier(m.branch)

KeyPath(t) == MatchKey(msgKey[t]).path
KeySite(t) == MatchKey(msgKey[t]).siteId

\* handleMessage reaches the call of processFile for t's message.
PipelineInvoked(t) ==
  Decoded(t) /\ IsMarkdownPath(KeyPath(t)) /\ ~IsInternalPath(KeyPath(t))

Called(t, op) == \E i \in 1..Len(log[t]) : log[t][i].op = op
Succeeded(t, op) ==
  \E i \in 1..Len(log[t]) : log[t][i].op = op /\ log[t][i].ok
Failed(t, op) ==
  \E i \in 1..Len(log[t]) : log[t][i].op = op /\ ~log[t][i].ok

\* The calls whose failure processFile logs and swallows.
BestEffort == {"delete object", "index delete", "index upsert"}

\* processFile threw: some call it does not swallow failed.
PipelineFailed(t) ==
  \E i \in 1..Len(log[t]) : ~log[t][i].ok /\ log[t][i].op \notin BestEffort

\* ---------------------------------------------------------------------
\* C1: for every message handed to handleMessage, once the task is over:
\* ack was called exactly when the key decoded and processFile, if it was
\* invoked, did not throw; so a message whose key does not decode or whose
\* processFile failed stays unacknowledged.
C1_AckIffProcessed ==
  \A t \in Tasks :
    Done(t) =>
      (acked[t] <=> (Decoded(t) /\ (PipelineInvoked(t) => ~PipelineFailed(t))))

\* One batch in which a processFile failed (no ack) and another succeeded.
C1_Witness ==
  \E t, u \in Tasks :
    /\ Done(t) /\ PipelineInvoked(t) /\ PipelineFailed(t) /\ ~acked[t]
    /\ Done(u) /\ PipelineInvoked(u) /\ ~PipelineFailed(u) /\ acked[u]

\* ---------------------------------------------------------------------
\* C2: when processFile ran to completion without a failure on a markdown
\* document whose metadata does not carry publish = false (no other task in
\* the batch), the row has sync_status = SUCCESS, sync_error = NULL and
\* metadata equal to the metadata extracted from the object that this run
\* fetched.
C2_SuccessLeavesExtractedMetadata ==
  \A t \in Tasks :
    (Done(t) /\ Alone(t) /\ PipelineInvoked(t) /\ ~PipelineFailed(t)) =>
      /\ loc[t].resp # NULL
      /\ \A resp \in loc[t].resp :
           LET parsed == parseMarkdownFile(resp.text, KeyPath(t))
               id == loc[t].blobId
           IN ~PublishSuppressed(parsed.metadata) =>
                /\ id \in DOMAIN Blob
                /\ Blob[id].sync_status = "SUCCESS"
                /\ Blob[id].sync_error = NULL
                /\ Blob[id].metadata = parsed.metadata

\* A successful run on a row that an earlier delivery had left in ERROR.
C2_Witness ==
  \E t \in Tasks :
    /\ Done(t) /\ Alone(t) /\ PipelineInvoked(t) /\ ~PipelineFailed(t)
    /\ ~PublishSuppressed(loc[t].metadata)
    /\ Succeeded(t, "update SUCCESS")
    /\ loc[t].blobId \in DOMAIN pre.Blob
    /\ pre.Blob[loc[t].blobId].sync_status = "ERROR"
    /\ pre.Blob[loc[t].blobId].sync_error # NULL

\* ---------------------------------------------------------------------
\* processFile threw after it had marked the row PROCESSING.
FailedAfterProcessing(t) ==
  Succeeded(t, "update PROCESSING") /\ PipelineFailed(t)

\* The row of t is in ERROR with the message of the failure processFile
\* caught, metadata and permalink are those of before the batch, and the same
\* failure reached handleMessage.
LeftInError(t) ==
  LET id == loc[t].blobId
  IN /\ id \in DOMAIN Blob
     /\ loc[t].e # NULL
     /\ Blob[id].sync_status = "ERROR"
     /\ Blob[id].sync_error = loc[t].e
     /\ Blob[id].metadata = pre.Blob[id].metadata
     /\ Blob[id].permalink = pre.Blob[id].permalink
     /\ raised[t] = loc[t].e

\* The ERROR update failed: the row is still PROCESSING, otherwise as before
\* the batch, and the failure of the update is what reached handleMessage.
LeftInProcessing(t) ==
  LET id == loc[t].blobId
  IN /\ id \in DOMAIN Blob
     /\ Blob[id] = [pre.Blob[id] EXCEPT !.sync_status = "PROCESSING"]
     /\ raised[t] = Some(CatalogErrorMessage)

\* C3 as claimed: any failure raised after the row was marked PROCESSING
\* leaves the row in ERROR with that failure's message, metadata and
\* permalink untouched, and re-raises the same failure.
C3_AnyFailureLeavesError ==
  \A t \in Tasks :
    (Done(t) /\ Alone(t) /\ FailedAfterProcessing(t)) => LeftInError(t)

\* C3 as amended: any failure raised in the try block after the row was
\* marked PROCESSING makes processFile issue the ERROR update; when that
\* update succeeds the row is in ERROR with that failure's message, metadata
\* and permalink untouched, and the same failure is re-raised; when the
\* ERROR update itself fails the row stays PROCESSING and the failure of the
\* update is raised instead.
C3_FailureLeavesErrorWhenRecorded ==
  \A t \in Tasks :
    (Done(t) /\ Alone(t) /\ FailedAfterProcessing(t)) =>
      /\ Called(t, "update ERROR")
      /\ Succeeded(t, "update ERROR") => LeftInError(t)
      /\ Failed(t, "update ERROR") => LeftInProcessing(t)

\* A failed run on a row that an earlier delivery had filled with metadata.
C3_Witness ==
  \E t \in Tasks :
    /\ Done(t) /\ Alone(t) /\ FailedAfterProcessing(t)
    /\ Succeeded(t, "update ERROR")
    /\ pre.Blob[loc[t].blobId].metadata # <<>>
    /\ pre.Blob[loc[t].blobId].permalink # NULL

\* ---------------------------------------------------------------------
\* The row and the search document of t's document are both the ones that
\* the object fetched by task w yields.
DerivedFrom(t, w) ==
  LET id == loc[t].blobId
      site == loc[t].siteId
  IN \E resp \in loc[w].resp :
       LET parsed == parseMarkdownFile(resp.text, loc[t].path)
       IN /\ Blob[id].metadata = parsed.metadata
          /\ <<site, id>> \in DOMAIN index
          /\ index[<<site, id>>] =
               SearchDocument(id, loc[t].path, parsed.body, parsed.metadata)

\* C4: two tasks of one batch process the same existing markdown document,
\* the stored object may be replaced between their fetches, no call fails
\* and both persist.  Once both are over the row is in a terminal state and
\* its metadata and the search document with the row's id come from one and
\* the same fetched version.
C4_ConcurrentTasksConverge ==
  \A t, u \in Tasks :
    ( /\ t # u /\ Done(t) /\ Done(u)
      /\ msgKey[t] = msgKey[u] /\ PipelineInvoked(t)
      /\ NoCallFailed(t) /\ NoCallFailed(u)
      /\ Succeeded(t, "update SUCCESS") /\ Succeeded(u, "update SUCCESS") ) =>
        /\ loc[t].blobId \in DOMAIN Blob
        /\ Blob[loc[t].blobId].sync_status \in {"SUCCESS", "ERROR"}
        /\ DerivedFrom(t, t) \/ DerivedFrom(t, u)

\* ---------------------------------------------------------------------
\* The batch before t's carried the same notification alone, it was
\* acknowledged with every call succeeding, and the object t fetched is the
\* one that handling fetched.
SecondHandling(t) ==
  /\ Solo(t) /\ PipelineInvoked(t) /\ NoCallFailed(t)
  /\ \E first \in pre.last :
       /\ first.key = msgKey[t]
       /\ first.acked /\ first.clean
       /\ first.resp = loc[t].resp
       /\ first.resp # NULL

\* C5: with the stored content unchanged, handling the same notification a
\* second time after a first successful handling leaves the row (metadata,
\* permalink, sync_status = SUCCESS, sync_error) and the search document
\* identical to what they were after the first handling.
C5_SecondHandlingChangesNothing ==
  \A t \in Tasks :
    (Done(t) /\ SecondHandling(t) /\ ~PublishSuppressed(loc[t].metadata)) =>
      LET id == loc[t].blobId
          doc == <<loc[t].siteId, id>>
      IN /\ id \in DOMAIN Blob /\ id \in DOMAIN pre.Blob
         /\ Blob[id] = pre.Blob[id]
         /\ Blob[id].sync_status = "SUCCESS"
         /\ doc \in DOMAIN index /\ doc \in DOMAIN pre.index
         /\ index[doc] = pre.index[doc]

C5_Witness ==
  \E t \in Tasks :
    /\ Done(t) /\ SecondHandling(t) /\ ~PublishSuppressed(loc[t].metadata)
    /\ Succeeded(t, "update SUCCESS") /\ Succeeded(t, "index upsert")
    /\ pre.Blob[loc[t].blobId].permalink # NULL

\* ---------------------------------------------------------------------
\* The frontmatter t parsed carries publish: false.
SuppressFlag(t) ==
  "publish" \in DOMAIN loc[t].metadata /\ loc[t].metadata.publish = "false"

\* What each removal of the suppress-publication path leaves behind, for a
\* task that ran by itself: the object, the row and the search document are
\* gone once the call that removes them has succeeded.
SuppressedRemoved(t) ==
  (Done(t) /\ Solo(t)) =>
    /\ Succeeded(t, "delete object") => msgKey[t] \notin DOMAIN bucket
    /\ Succeeded(t, "delete row") => loc[t].blobId \notin DOMAIN Blob
    /\ Succeeded(t, "index delete") =>
         <<loc[t].siteId, loc[t].blobId>> \notin DOMAIN index

\* C6 as claimed: with publish = false the handling removes the object, the
\* row and the search document, and once the row was marked PROCESSING the
\* task never writes SUCCESS or ERROR to it.
C6_SuppressedNeverWritesStatus ==
  \A t \in Tasks :
    (PipelineInvoked(t) /\ SuppressFlag(t)) =>
      /\ SuppressedRemoved(t)
      /\ ~Called(t, "update SUCCESS")
      /\ ~Called(t, "update ERROR")

\* C6 as amended: with publish = false the handling removes the object, the
\* row and the search document, and once the row was marked PROCESSING the
\* task never writes SUCCESS to it, and never writes ERROR unless the delete
\* of the row fails: then the catch block writes ERROR with that failure's
\* message and the message is not acknowledged.
C6_SuppressedWritesErrorOnlyOnFailedDelete ==
  \A t \in Tasks :
    (PipelineInvoked(t) /\ SuppressFlag(t)) =>
      /\ SuppressedRemoved(t)
      /\ ~Called(t, "update SUCCESS")
      /\ Called(t, "update ERROR") => Failed(t, "delete row")
      /\ (Done(t) /\ Failed(t, "delete row")) =>
           /\ Called(t, "update ERROR")
           /\ ~acked[t]
           /\ loc[t].e = Some(CatalogErrorMessage)
      /\ (Done(t) /\ ~Failed(t, "delete row")) =>
           /\ Succeeded(t, "delete row")
           /\ Called(t, "delete object") /\ Called(t, "index delete")
           /\ acked[t]

\* An indexed document is replaced by a text with publish: false and the
\* next handling removes object, row and search document.
C6_Witness ==
  \E t \in Tasks :
    /\ Done(t) /\ Solo(t) /\ PipelineInvoked(t) /\ SuppressFlag(t)
    /\ Succeeded(t, "delete object") /\ Succeeded(t, "delete row")
    /\ Succeeded(t, "index delete")
    /\ <<loc[t].siteId, loc[t].blobId>> \in DOMAIN pre.index
    /\ acked[t]

\* ---------------------------------------------------------------------
\* The path does not end in .md or .mdx, whatever the case of the letters.
LacksMarkdownSuffix(path) ==
  LET n == Len(path)
      last3 == IF n >= 3 THEN SubSeq(path, n - 2, n) ELSE <<>>
      last4 == IF n >= 4 THEN SubSeq(path, n - 3, n) ELSE <<>>
  IN /\ last3 \notin [1..3 -> {".", "m", "M", "d", "D"}]
        \/ last3[1] # "." \/ last3[2] \notin {"m", "M"}
        \/ last3[3] \notin {"d", "D"}
     /\ last4 \notin [1..4 -> {".", "m", "M", "d", "D", "x", "X"}]
        \/ last4[1] # "." \/ last4[2] \notin {"m", "M"}
        \/ last4[3] \notin {"d", "D"} \/ last4[4] \notin {"x", "X"}

\* C7: a notification whose path does not end in .md or .mdx
\* (case-insensitive) makes no PROCESSING update, no storage access and no
\* parse; handled by itself it leaves every store as it was except that,
\* once its update succeeded, the matching row has sync_status = SUCCESS and
\* sync_error = NULL, its metadata and permalink being unchanged.
C7_NonMarkdownGoesStraightToSuccess ==
  \A t \in Tasks :
    (Decoded(t) /\ LacksMarkdownSuffix(KeyPath(t))) =>
      /\ \A i \in 1..Len(log[t]) :
           log[t][i].op \in {"getBlobId", "update SUCCESS"}
      /\ Alone(t) =>
           /\ index = pre.index
           /\ Solo(t) => bucket = pre.bucket
           /\ \A id \in DOMAIN pre.Blob :
                /\ id \in DOMAIN Blob
                /\ Blob[id].sync_status = "PROCESSING" =>
                     pre.Blob[id].sync_status = "PROCESSING"
                /\ Blob[id] # pre.Blob[id] =>
                     /\ Succeeded(t, "update SUCCESS")
                     /\ pre.Blob[id].site_id = KeySite(t)
                     /\ pre.Blob[id].path = KeyPath(t)
           /\ Succeeded(t, "update SUCCESS") =>
                /\ loc[t].blobId \in DOMAIN Blob
                /\ Blob[loc[t].blobId] =
                     [pre.Blob[loc[t].blobId] EXCEPT
                        !.sync_status = "SUCCESS", !.sync_error = NULL]
                /\ Blob[loc[t].blobId].site_id = KeySite(t)
                /\ Blob[loc[t].blobId].path = KeyPath(t)

\* The image row, still PENDING, was moved to SUCCESS.
C7_Witness ==
  \E t \in Tasks :
    /\ Done(t) /\ Alone(t) /\ Decoded(t) /\ LacksMarkdownSuffix(KeyPath(t))
    /\ Succeeded(t, "update SUCCESS")
    /\ pre.Blob[loc[t].blobId].sync_status = "PENDING"
    /\ Blob[loc[t].blobId].sync_status = "SUCCESS"
    /\ acked[t]

\* ---------------------------------------------------------------------
\* The backend reported a size above 5 MiB for the object t fetched.
Oversized(t) == \E resp \in loc[t].resp : resp.size > 5 * 1024 * 1024

\* C8: when the backend (S3 or R2) reports a size above 5 MiB the handling
\* fails with the file-too-large error: the body is not read, nothing is
\* parsed, no SUCCESS update and no search document is written, the message
\* is not acknowledged, and once the ERROR update succeeded the row is in
\* ERROR with that message, everything else in it (metadata, permalink) as
\* before.
C8_OversizedFileEndsInError ==
  \A t \in Tasks :
    (PipelineInvoked(t) /\ Oversized(t)) =>
      /\ \A resp \in loc[t].resp :
           loc[t].e = Some("File too large: " \o ToString(resp.size))
      /\ ~Called(t, "body") /\ ~Called(t, "parse")
      /\ ~Called(t, "update SUCCESS") /\ ~Called(t, "index upsert")
      /\ Done(t) =>
           /\ ~acked[t]
           /\ Called(t, "update ERROR")
           /\ Succeeded(t, "update ERROR") =>
                /\ raised[t] = loc[t].e
                /\ Alone(t) =>
                     /\ index = pre.index
                     /\ Blob[loc[t].blobId] =
                          [pre.Blob[loc[t].blobId] EXCEPT
                             !.sync_status = "ERROR", !.sync_error = loc[t].e]

\* An oversized replacement of a document that was processed before.
C8_Witness ==
  \E t \in Tasks :
    /\ Done(t) /\ Alone(t) /\ PipelineInvoked(t) /\ Oversized(t)
    /\ Succeeded(t, "update ERROR")
    /\ pre.Blob[loc[t].blobId].metadata # <<>>
    /\ Blob[loc[t].blobId].sync_status = "ERROR"

\* ---------------------------------------------------------------------
\* C9: a failure of the search index (the upsert after the SUCCESS update,
\* or the removal on the suppress-publication path) does not change the
\* outcome: whether the index call succeeded or failed, the message is
\* acknowledged, no error is raised, no ERROR update is made, and for a task
\* that ran by itself the row is what the catalog write before the index
\* call left (SUCCESS with the parsed metadata, or no row).
C9_IndexFailureChangesNothing ==
  \A t \in Tasks :
    (Done(t) /\ PipelineInvoked(t)
       /\ (Called(t, "index upsert") \/ Called(t, "index delete"))) =>
      /\ acked[t] /\ raised[t] = NULL
      /\ ~Called(t, "update ERROR")
      /\ Alone(t) =>
           IF Called(t, "index upsert")
           THEN /\ loc[t].blobId \in DOMAIN Blob
                /\ Blob[loc[t].blobId].sync_status = "SUCCESS"
                /\ Blob[loc[t].blobId].sync_error = NULL
                /\ Blob[loc[t].blobId].metadata = loc[t].metadata
           ELSE loc[t].blobId \notin DOMAIN Blob

\* One batch with a failed upsert and a failed removal, both acknowledged.
C9_Witness ==
  \E t \in Tasks :
    /\ Done(t) /\ Alone(t) /\ Failed(t, "index upsert") /\ acked[t]
    /\ Blob[loc[t].blobId].sync_status = "SUCCESS"
    /\ <<loc[t].siteId, loc[t].blobId>> \notin DOMAIN index

\* ---------------------------------------------------------------------
\* The key of t decodes and the catalog held no row for its site and path
\* when the batch started.
NoDocument(t) ==
  /\ Decoded(t)
  /\ \A id \in DOMAIN pre.Blob :
       pre.Blob[id].site_id # KeySite(t) \/ pre.Blob[id].path # KeyPath(t)

\* Nothing but the lookup was called and, for a task that ran by itself, the
\* three stores are as they were.
NothingTouched(t) ==
  /\ \A i \in 1..Len(log[t]) : log[t][i].op = "getBlobId"
  /\ Alone(t) => Blob = pre.Blob /\ index = pre.index
  /\ Solo(t) => bucket = pre.bucket

\* C10 as claimed: when no row exists for the decoded (siteId, path) the
\* handling aborts, nothing is written, read or deleted, and the message is
\* not acknowledged, whatever the suffix of the path.
C10_MissingDocumentNeverAcked ==
  \A t \in Tasks :
    NoDocument(t) => NothingTouched(t) /\ (Done(t) => ~acked[t])

\* C10 as amended: when no row exists for the decoded (siteId, path) nothing
\* is written, read or deleted, for every validly decoded key; the message
\* is left unacknowledged exactly when the path has a markdown suffix and
\* lies outside the reserved directory, and is acknowledged otherwise (a
\* non-markdown path after the failed lookup, a path inside _flowershow/
\* without any lookup).
C10_MissingDocumentAckedUnlessPipeline ==
  \A t \in Tasks :
    NoDocument(t) =>
      /\ NothingTouched(t)
      /\ Done(t) =>
           (acked[t] <=> (LacksMarkdownSuffix(KeyPath(t))
                            \/ Includes(KeyPath(t), FlowershowDir)))

\* One batch with a markdown and a non-markdown key that both have no row.
C10_Witness ==
  \E t, u \in Tasks :
    /\ Done(t) /\ NoDocument(t) /\ ~LacksMarkdownSuffix(KeyPath(t))
    /\ Failed(t, "getBlobId") /\ ~acked[t]
    /\ Done(u) /\ NoDocument(u) /\ LacksMarkdownSuffix(KeyPath(u))
    /\ Failed(u, "getBlobId") /\ acked[u]

\* ---------------------------------------------------------------------
\* The path of t's key lies inside the reserved directory.
InReservedDirectory(t) == Decoded(t) /\ Includes(KeyPath(t), FlowershowDir)

\* t made no call at all, never waited, and, having run by itself, left the
\* three stores as they were; its message is acknowledged.
SkippedAtOnce(t) ==
  /\ log[t] = <<>>
  /\ pc[t] \in {"start", "done"}
  /\ Done(t) => acked[t] /\ raised[t] = NULL
  /\ Alone(t) => Blob = pre.Blob /\ index = pre.index
  /\ Solo(t) => bucket = pre.bucket

\* C11 as claimed: a notification whose path lies inside _flowershow/ is
\* acknowledged at once without invoking the pipeline, and catalog, storage
\* and index are left unchanged, whether or not the path has a markdown
\* suffix.
C11_ReservedPathTouchesNothing ==
  \A t \in Tasks : InReservedDirectory(t) => SkippedAtOnce(t)

\* C11 as amended: a notification whose path lies inside _flowershow/ and
\* ends in .md/.mdx is acknowledged at once, no call made and no store
\* changed; one whose path lies inside _flowershow/ and has no markdown
\* suffix is handled as any non-markdown path: the row is looked up and, if
\* found and the update succeeds, set to SUCCESS with sync_error NULL, the
\* storage and the index are untouched and the message is acknowledged.
C11_ReservedMarkdownPathTouchesNothing ==
  \A t \in Tasks :
    InReservedDirectory(t) =>
      IF ~LacksMarkdownSuffix(KeyPath(t))
      THEN SkippedAtOnce(t)
      ELSE /\ \A i \in 1..Len(log[t]) :
                log[t][i].op \in {"getBlobId", "update SUCCESS"}
           /\ Done(t) => acked[t] /\ raised[t] = NULL
           /\ Alone(t) => index = pre.index
           /\ Solo(t) => bucket = pre.bucket
           /\ (Done(t) /\ Alone(t)) =>
                Blob = IF Succeeded(t, "update SUCCESS")
                       THEN [pre.Blob EXCEPT ![loc[t].blobId] =
                               [@ EXCEPT !.sync_status = "SUCCESS",
                                         !.sync_error = NULL]]
                       ELSE pre.Blob

\* One batch with a markdown file and a stylesheet of the reserved
\* directory: the first skipped, the row of the second set to SUCCESS.
C11_Witness ==
  \E t, u \in Tasks :
    /\ Done(t) /\ InReservedDirectory(t) /\ ~LacksMarkdownSuffix(KeyPath(t))
    /\ acked[t] /\ log[t] = <<>>
    /\ Done(u) /\ InReservedDirectory(u) /\ LacksMarkdownSuffix(KeyPath(u))
    /\ acked[u] /\ Succeeded(u, "update SUCCESS")
    /\ pre.Blob[loc[u].blobId].sync_status = "PENDING"
    /\ Blob[loc[u].blobId].sync_status = "SUCCESS"

\* ---------------------------------------------------------------------
\* C12: the catalog never holds a row id it did not hold initially, and no
\* step ever adds a row id: every step leaves the set of ids as it was or
\* makes it smaller.
C12_RowsNeverCreated ==
  /\ [](DOMAIN Blob \subseteq DOMAIN InitialBlob)
  /\ [][DOMAIN Blob' \subseteq DOMAIN Blob]_vars

\* A row was deleted by one task of a batch and another task of that batch,
\* which had looked the id up before, then wrote to the id that no longer
\* exists.
C12_Witness ==
  \E t \in Tasks :
    /\ Done(t)
    /\ loc[t].blobId \in DOMAIN InitialBlob \ DOMAIN Blob
    /\ Succeeded(t, "update ERROR") \/ Succeeded(t, "update SUCCESS")
    /\ ~Called(t, "delete row")

\* ---------------------------------------------------------------------
\* The calls of processFile that reach the object storage.
StorageOps == {"get", "body", "delete object"}

\* C20: in every run of processFile the successful PROCESSING update comes
\* before every storage access of the run, the row of a task that ran by
\* itself is in PROCESSING when the object has just been fetched, and a run
\* whose PROCESSING update failed makes no storage access (and no further
\* call) at all.
C20_ProcessingBeforeStorage ==
  \A t \in Tasks :
    /\ \A i \in 1..Len(log[t]) :
         log[t][i].op \in StorageOps =>
           \E j \in 1..(i - 1) : log[t][j] = Call("update PROCESSING", TRUE)
    /\ Failed(t, "update PROCESSING") =>
         /\ log[t][Len(log[t])] = Call("update PROCESSING", FALSE)
         /\ Done(t) /\ ~acked[t]
    /\ (Alone(t) /\ pc[t] = "pf_body") =>
         Blob[loc[t].blobId].sync_status = "PROCESSING"

\* The object was fetched by a task whose row is in PROCESSING; and the
\* other outcome, in the batch before: the update failed and nothing else
\* was called.
C20_Witness ==
  \E t \in Tasks :
    /\ Alone(t) /\ pc[t] = "pf_body" /\ Succeeded(t, "get")
    /\ pre.Blob[loc[t].blobId].sync_status # "PROCESSING"
    /\ Blob[loc[t].blobId].sync_status = "PROCESSING"
    /\ \E h \in pre.last : h.key = msgKey[t] /\ ~h.acked /\ h.resp = NULL

\* ---------------------------------------------------------------------
\* The frontmatter of the text t fetched.
FetchedFrontmatter(t) == (CHOOSE resp \in loc[t].resp : TRUE).text.fm

\* t ran by itself through processFile on a text that parses and wrote
\* SUCCESS.
ProcessedAlone(t) ==
  /\ Done(t) /\ Solo(t) /\ PipelineInvoked(t)
  /\ Succeeded(t, "update SUCCESS")
  /\ loc[t].blobId \in DOMAIN Blob

\* C14: after the notification for a markdown file whose frontmatter gives
\* title, description and date was handled, the row of that file has
\* metadata.title, metadata.description and metadata.date equal to the
\* frontmatter values and sync_status = SUCCESS.
C14_FrontmatterFieldsReachTheRecord ==
  \A t \in Tasks :
    (ProcessedAlone(t)
       /\ {"title", "description", "date"} \subseteq
            DOMAIN FetchedFrontmatter(t)
       /\ FetchedFrontmatter(t).title # ""
       /\ FetchedFrontmatter(t).description # "") =>
      LET row == Blob[loc[t].blobId]
      IN /\ row.site_id = KeySite(t) /\ row.path = KeyPath(t)
         /\ {"title", "description", "date"} \subseteq DOMAIN row.metadata
         /\ row.metadata.title = FetchedFrontmatter(t).title
         /\ row.metadata.description = FetchedFrontmatter(t).description
         /\ row.metadata.date = FetchedFrontmatter(t).date
         /\ row.sync_status = "SUCCESS"

\* The values of the end-to-end test, in the row of a.md.
C14_Witness ==
  \E t \in Tasks :
    /\ ProcessedAlone(t) /\ acked[t]
    /\ pre.Blob[loc[t].blobId].sync_status = "PENDING"
    /\ Blob[loc[t].blobId].metadata.title = "Test Article"
    /\ Blob[loc[t].blobId].metadata.description = "A test markdown file"
    /\ Blob[loc[t].blobId].metadata.date = "2024-03-20T00:00:00.000Z"
    /\ Blob[loc[t].blobId].sync_status = "SUCCESS"

FetchedText(t) == (CHOOSE resp \in loc[t].resp : TRUE).text

\* Every wikilink of a heading reduced to its text.
RECURSIVE WithoutWikilinks(_)
WithoutWikilinks(cs) ==
  IF ReplaceFirstWikilink(cs) = cs THEN cs
  ELSE WithoutWikilinks(ReplaceFirstWikilink(cs))

\* The text of the first level-1 heading of a body, its markup removed;
\* <<>> when the body has no line "# text".
BodyHeading(content) ==
  LET lines == SplitLines(content)
      at == {i \in 1..Len(lines) :
               /\ Len(lines[i]) > 2
               /\ lines[i][1] = "#" /\ lines[i][2] = " "}
  IN IF at = {} THEN <<>>
     ELSE LET l == lines[CHOOSE i \in at : \A j \in at : i <= j]
          IN Trim(ReplaceLinks(RemoveMarkupChars(
                 WithoutWikilinks(SubSeq(l, 3, Len(l))))))

\* C16: the title the extractor resolves is the frontmatter title when
\* present and non-empty; otherwise the text of the first level-1 heading
\* of the body (the frontmatter block excluded) with wikilink, emphasis and
\* inline-link markup removed; otherwise the last segment of the path
\* without its .md/.mdx suffix; otherwise the empty string.
C16_TitleResolutionOrder ==
  \A t \in Tasks :
    Succeeded(t, "parse") =>
      LET text == FetchedText(t)
      IN loc[t].metadata.title =
           IF "title" \in DOMAIN text.fm /\ text.fm.title # ""
           THEN text.fm.title
           ELSE IF BodyHeading(text.content) # <<>>
           THEN Str(BodyHeading(text.content))
           ELSE Str(FileTitle(KeyPath(t)))

\* ---------------------------------------------------------------------
\* C17: the description the extractor resolves is the frontmatter
\* description when present (and non-empty); otherwise, when the stripped
\* plain text of the body is longer than 200 characters, its first 200
\* characters followed by "..."; and the empty string when the stripped
\* text is empty.
C17_DescriptionResolution ==
  \A t \in Tasks :
    Succeeded(t, "parse") =>
      LET text == FetchedText(t)
          plain == StripMarkdown(text.content)
      IN IF "description" \in DOMAIN text.fm
         THEN text.fm.description # "" =>
                loc[t].metadata.description = text.fm.description
         ELSE /\ Len(plain) > 200 =>
                   loc[t].metadata.description =
                     Str(SubSeq(plain, 1, 200)) \o "..."
              /\ plain = <<>> => loc[t].metadata.description = ""


\* ------------------------------------------------------------ key decoding
\* handleMessage has run for task t up to its first await or its end.
Handled(t) == pc[t] \notin {"idle", "start"}

\* The ways to read key as a/b/raw/c with a and b non-empty over word
\* characters and hyphen and c non-empty: the positions of the slash after a
\* and of the slash before raw.
KeySplits(key) ==
  { ij \in (1..Len(key)) \X (1..Len(key)) :
      /\ ij[1] > 1
      /\ ij[2] > ij[1] + 1
      /\ ij[2] + 5 <= Len(key)
      /\ key[ij[1]] = "/"
      /\ SubSeq(key, ij[2], ij[2] + 4) = <<"/","r","a","w","/">>
      /\ \A k \in (1..(ij[2] - 1)) \ {ij[1]} : key[k] \in IdentChars }

\* The key of task t was rejected with an error and nothing was processed.
Rejected(t) ==
  /\ raised[t] # NULL
  /\ pc[t] = "done"
  /\ log[t] = <<>>
  /\ loc[t] = NoLocals
  /\ Blob = pre.Blob /\ bucket = pre.bucket /\ index = pre.index

\* C13: every key a/b/raw/c with a and b non-empty over word characters and
\* hyphen and c non-empty decodes to exactly (siteId = a, branch = b,
\* path = c); every other key is rejected with an error and nothing is
\* processed.
C13_KeyDecoding ==
  \A t \in Tasks :
    Handled(t) =>
      LET key == msgKey[t]
      IN IF KeySplits(key) # {}
         THEN \A ij \in KeySplits(key) :
                /\ raised[t] = NULL
                /\ loc[t].siteId = SubSeq(key, 1, ij[1] - 1)
                /\ loc[t].branch = SubSeq(key, ij[1] + 1, ij[2] - 1)
                /\ loc[t].path = SubSeq(key, ij[2] + 5, Len(key))
         ELSE Rejected(t)

\* The key that raw stands for when each + is an encoded space and each
\* %20, %2B, %2F, %25 an encoded character, read in one pass.
RECURSIVE Unescaped(_)
Unescaped(raw) ==
  IF raw = <<>> THEN <<>>
  ELSE IF Head(raw) = "+" THEN <<" ">> \o Unescaped(Tail(raw))
  ELSE IF Head(raw) = "%" /\ Len(raw) >= 3
  THEN LET code == SubSeq(raw, 2, 3)
           char == IF code = <<"2","0">> THEN " "
                   ELSE IF code = <<"2","B">> THEN "+"
                   ELSE IF code = <<"2","F">> THEN "/"
                   ELSE "%"
       IN <<char>> \o Unescaped(SubSeq(raw, 4, Len(raw)))
  ELSE <<Head(raw)>> \o Unescaped(Tail(raw))

\* The key task t works on is the consumed key character for character.
ConsumedAsIs(t) ==
  ObjectKey(loc[t].siteId, loc[t].branch, loc[t].path) = msgKey[t]

\* C18 as stated: every key consumed from the queue is unescaped (+ to
\* space, then percent-decoding) by key decoding before the shape match.
C18_ConsumedKeyUnescaped ==
  \A t \in Tasks :
    Handled(t) /\ raised[t] = NULL =>
      ObjectKey(loc[t].siteId, loc[t].branch, loc[t].path)
        = Unescaped(msgKey[t])

\* C18 (amended): the HTTP entry point queues the envelope's key with each +
\* replaced by a space and then percent-decoded; handleMessage applies the
\* shape match to the consumed key as it is, so a key put on the queue by
\* the bucket keeps its + and % characters.
C18_EnvelopeKeyUnescapedBeforeQueueing ==
  /\ response = Some(Response(200, "Queued")) =>
       \E rawKey \in request.body.key :
         (IF queued # <<>> THEN queued[1].key ELSE msgKey[1])
           = Unescaped(rawKey)
  /\ \A t \in Tasks : Handled(t) /\ raised[t] = NULL => ConsumedAsIs(t)

\* An envelope key +%2B.md was queued and decoded to the path " +.md".
C18_Witness ==
  \E t \in Tasks :
    /\ Handled(t) /\ raised[t] = NULL
    /\ response = Some(Response(200, "Queued"))
    /\ request.body.key
         = Some(ObjectKey(Site1, Branch, <<"+","%","2","B",".","m","d">>))
    /\ loc[t].path = <<" ","+",".","m","d">>

\* ----------------------------------------------------- the HTTP responses
\* The number of notifications the entry point has put on the queue.
Enqueued == Len(queued) + nDelivered

\* The envelope of the request carries a first-record key.
HasKey == request.body.json /\ request.body.key \notin {NULL, Some(<<>>)}

\* C19: with the bindings present and the queue accepting messages, the
\* answer is 200 and one notification is enqueued for a dev-mode /queue
\* request whose envelope carries a key, 400 for any other dev-mode /queue
\* request, 200 for /health, 404 for every other route, and nothing is
\* enqueued in the last three cases.
C19_AdapterResponses ==
  \A r \in response :
    request.env.DATABASE_URL /\ r.text # SendErrorMessage =>
      IF request.env.ENVIRONMENT = "dev" /\ request.pathname = "/queue"
      THEN IF HasKey
           THEN r.status = 200 /\ Enqueued = 1
           ELSE r.status = 400 /\ Enqueued = 0
      ELSE IF request.pathname = "/health"
      THEN r.status = 200 /\ Enqueued = 0
      ELSE r.status = 404 /\ Enqueued = 0


\* ------------------------------------------------------ order of the calls
\* Every call of op2 in t's log comes after a call of op1 that succeeded.
OnlyAfter(t, op2, op1) ==
  \A j \in 1..Len(log[t]) :
    log[t][j].op = op2 =>
      \E i \in 1..(j - 1) : log[t][i] = Call(op1, TRUE)

\* Every call of op2 in t's log comes after a call of op1.
Follows(t, op2, op1) ==
  \A j \in 1..Len(log[t]) :
    log[t][j].op = op2 => \E i \in 1..(j - 1) : log[t][i].op = op1

\* C21: within one task the search document is upserted only after the
\* update that writes metadata, permalink and SUCCESS has succeeded (for a
\* task that ran by itself the row then carries SUCCESS and that metadata);
\* when that update fails the task issues no upsert.
C21_UpsertOnlyAfterCatalogSuccess ==
  \A t \in Tasks :
    /\ OnlyAfter(t, "index upsert", "update SUCCESS")
    /\ pc[t] = "pf_index" => Succeeded(t, "update SUCCESS")
    /\ Failed(t, "update SUCCESS") => ~Called(t, "index upsert")
    /\ (Solo(t) /\ (pc[t] = "pf_index" \/ Called(t, "index upsert"))) =>
         /\ Blob[loc[t].blobId].sync_status = "SUCCESS"
         /\ Blob[loc[t].blobId].metadata = loc[t].metadata

\* One batch in which a task upserted after its SUCCESS update and another,
\* whose SUCCESS update failed, ended without an upsert.
C21_Witness ==
  \E t, u \in Tasks :
    /\ Done(t) /\ Succeeded(t, "update SUCCESS")
    /\ Succeeded(t, "index upsert")
    /\ Done(u) /\ PipelineInvoked(u) /\ Failed(u, "update SUCCESS")
    /\ ~Called(u, "index upsert")

\* ---------------------------------------------------------------------
\* The removals of the suppress-publication path are issued in the order
\* storage delete, row delete, search document removal.
SuppressOrder(t) ==
  /\ Follows(t, "delete row", "delete object")
  /\ OnlyAfter(t, "index delete", "delete row")
  /\ ~Called(t, "update SUCCESS") /\ ~Called(t, "index upsert")

\* C22 as stated: on the suppress-publication path the calls are made in the
\* order storage delete, row delete, search document removal, and after a
\* failed storage delete the row is still deleted, the removal of the search
\* document is still attempted and the message is acknowledged.
C22_StorageDeleteFailureNeverAborts ==
  \A t \in Tasks :
    (PipelineInvoked(t) /\ SuppressFlag(t)) =>
      /\ SuppressOrder(t)
      /\ (Done(t) /\ Failed(t, "delete object")) =>
           /\ Succeeded(t, "delete row")
           /\ Called(t, "index delete")
           /\ acked[t]

\* C22 (amended): the order is storage delete, row delete, search document
\* removal; a failed storage delete does not abort the run, the row delete
\* is issued all the same; when the row delete succeeds the removal of the
\* search document is attempted and the message acknowledged; when the row
\* delete fails, the removal is not attempted, the ERROR update is issued
\* and the message is not acknowledged.
C22_StorageDeleteFailureDoesNotAbort ==
  \A t \in Tasks :
    (PipelineInvoked(t) /\ SuppressFlag(t)) =>
      /\ SuppressOrder(t)
      /\ (Failed(t, "delete object") /\ pc[t] # "pf_delete_row") =>
           Called(t, "delete row")
      /\ (Done(t) /\ Failed(t, "delete object")) =>
           /\ Succeeded(t, "delete row") =>
                /\ Called(t, "index delete")
                /\ acked[t]
                /\ raised[t] = NULL
                /\ Solo(t) => loc[t].blobId \notin DOMAIN Blob
           /\ Failed(t, "delete row") =>
                /\ ~Called(t, "index delete")
                /\ Called(t, "update ERROR")
                /\ ~acked[t]

\* The storage delete failed; the row was deleted, the search document
\* removed and the message acknowledged.
C22_Witness ==
  \E t \in Tasks :
    /\ Done(t) /\ Solo(t) /\ PipelineInvoked(t) /\ SuppressFlag(t)
    /\ Failed(t, "delete object")
    /\ msgKey[t] \in DOMAIN bucket
    /\ Succeeded(t, "delete row") /\ loc[t].blobId \notin DOMAIN Blob
    /\ Succeeded(t, "index delete")
    /\ acked[t]


\* ---------------------------------------------------------------------
\* C23: on S3 and on R2 the size test comes before the body is read, and
\* the body is read exactly when the reported size is at most 5 * 1024 *
\* 1024 bytes: 5242880 is accepted, 5242881 is refused with the
\* file-too-large error, and the body of an oversized object is never read.
C23_SizeTestPrecedesBody ==
  \A t \in Tasks :
    /\ OnlyAfter(t, "body", "size")
    /\ \A resp \in loc[t].resp :
         /\ pc[t] # "pf_body" =>
              (Called(t, "body") <=> resp.size <= 5 * 1024 * 1024)
         /\ resp.size = 5242880 =>
              pc[t] = "pf_body" \/ Called(t, "body")
         /\ resp.size = 5242881 =>
              /\ ~Called(t, "body")
              /\ loc[t].e = Some("File too large: 5242881")

\* On R2 an object of exactly 5242880 bytes was read and processed.
C23_Witness ==
  \E t \in Tasks :
    /\ storageType = "r2"
    /\ Done(t) /\ acked[t]
    /\ \E resp \in loc[t].resp : resp.size = 5242880
    /\ Succeeded(t, "body")


\* ---------------------------------------------------------------------
\* A catalog write of task t failed.
CatalogWrites ==
  {"update PROCESSING", "update SUCCESS", "delete row", "update ERROR"}

WriteFailed(t) == \E op \in CatalogWrites : Failed(t, op)

\* C25 as stated: a failed catalog write (mark PROCESSING, persist SUCCESS,
\* row delete, direct SUCCESS write of a non-markdown path) is propagated
\* and the message is not acknowledged.
C25_CatalogWriteFailurePropagates ==
  \A t \in Tasks :
    (Done(t) /\ WriteFailed(t)) =>
      /\ raised[t] = Some(CatalogErrorMessage)
      /\ ~acked[t]

\* C25 (amended): a failed catalog write of the pipeline (mark PROCESSING,
\* persist SUCCESS, row delete, ERROR update) is propagated to handleMessage
\* and the message is not acknowledged; a failed direct SUCCESS write of a
\* non-markdown path is logged and swallowed, and the message is
\* acknowledged.
C25_PipelineWriteFailurePropagates ==
  \A t \in Tasks :
    (Done(t) /\ WriteFailed(t)) =>
      IF PipelineInvoked(t)
      THEN /\ raised[t] = Some(CatalogErrorMessage)
           /\ ~acked[t]
      ELSE /\ raised[t] = NULL
           /\ acked[t]

\* One batch in which the PROCESSING write of a markdown document failed
\* and the direct SUCCESS write of an image failed.
C25_Witness ==
  \E t, u \in Tasks :
    /\ Done(t) /\ PipelineInvoked(t) /\ Failed(t, "update PROCESSING")
    /\ ~acked[t]
    /\ Done(u) /\ ~PipelineInvoked(u) /\ Failed(u, "update SUCCESS")
    /\ acked[u]


\* ---------------------------------------------------------------------
\* The handling of t's message failed: an error reached the catch block of
\* handleMessage.
HandlingFailed(t) == Done(t) /\ raised[t] # NULL

\* C26 as stated: after any failed handling some record carries the
\* failure's message in sync_error.
C26_EveryFailureRecorded ==
  \A t \in Tasks :
    HandlingFailed(t) =>
      \E id \in DOMAIN Blob : Blob[id].sync_error = raised[t]

\* C26 (amended): the ERROR update is issued exactly for the failures raised
\* in the try block of processFile, after the row was marked PROCESSING;
\* when it succeeds, the row of the document carries the failure's message
\* in sync_error; after every other failed handling (invalid key, no row,
\* failed lookup, failed PROCESSING write, failed ERROR update) no
\* sync_error was written.
C26_FailureRecordedWhenErrorWritten ==
  \A t \in Tasks :
    (HandlingFailed(t) /\ Alone(t)) =>
      /\ Called(t, "update ERROR") <=>
           (Succeeded(t, "update PROCESSING") /\ loc[t].e # NULL)
      /\ IF Succeeded(t, "update ERROR")
         THEN /\ loc[t].blobId \in DOMAIN Blob
              /\ Blob[loc[t].blobId].sync_status = "ERROR"
              /\ Blob[loc[t].blobId].sync_error = raised[t]
         ELSE \A id \in DOMAIN Blob :
                Blob[id].sync_error = pre.Blob[id].sync_error

\* A parse failure was recorded in the row of the document.
C26_Witness ==
  \E t \in Tasks :
    /\ HandlingFailed(t) /\ Alone(t)
    /\ Failed(t, "parse") /\ Succeeded(t, "update ERROR")
    /\ Blob[loc[t].blobId].sync_error = Some(ParseErrorMessage)


\* ---------------------------------------------------------------------
\* No task is in flight.
Quiescent == \A t \in Tasks : ~InFlight(t)

\* C30 as stated: whenever no task is in flight no row has sync_status
\* PROCESSING, also when storage, parse or catalog calls fail.
C30_NoRowLeftProcessing ==
  Quiescent =>
    \A id \in DOMAIN Blob : Blob[id].sync_status # "PROCESSING"

\* C30 (amended): when no task is in flight, a row has sync_status
\* PROCESSING only if the ERROR update of a task that had marked it failed,
\* in this batch or in an earlier one: every task that wrote PROCESSING went
\* on to issue the SUCCESS update, the ERROR update or the delete of that
\* row, and the row is left PROCESSING only when the ERROR update failed.
C30_RowLeftProcessingOnlyByFailedErrorWrite ==
  Quiescent =>
    /\ \A id \in DOMAIN Blob :
         Blob[id].sync_status = "PROCESSING" =>
           \/ pre.Blob[id].sync_status = "PROCESSING"
           \/ \E t \in Tasks :
                loc[t].blobId = id /\ Failed(t, "update ERROR")
    /\ \A t \in Tasks :
         Succeeded(t, "update PROCESSING") =>
           \/ Succeeded(t, "update SUCCESS")
           \/ Succeeded(t, "delete row")
           \/ Called(t, "update ERROR")

\* Both tasks of a batch are over and the row they worked on is left
\* PROCESSING by a failed ERROR update.
C30_Witness ==
  /\ Quiescent
  /\ \E t \in Tasks :
       /\ Done(t) /\ Failed(t, "update ERROR")
       /\ Blob[loc[t].blobId].sync_status = "PROCESSING"
       /\ pre.Blob[loc[t].blobId].sync_status # "PROCESSING"
       /\ \E u \in Tasks \ {t} : Done(u) /\ loc[u].blobId = loc[t].blobId


\* ---------------------------------------------------------------------
\* A string with neither a leading nor a trailing slash.
Unslashed(cs) == cs = <<>> \/ (cs[1] # "/" /\ cs[Len(cs)] # "/")

\* The part of permalink from its first to its last character that is not
\* a slash.
WithoutOuterSlashes(permalink) ==
  LET inner == {i \in 1..Len(permalink) : permalink[i] # "/"}
  IN IF inner = {} THEN <<>>
     ELSE SubSeq(permalink,
                 CHOOSE i \in inner : \A j \in inner : i <= j,
                 CHOOSE i \in inner : \A j \in inner : j <= i)

\* C27: after a successful processing the permalink column has neither a
\* leading nor a trailing slash: it is the frontmatter permalink without its
\* leading and trailing slashes, and NULL, whatever it was before, when the
\* frontmatter has no permalink (an empty permalink counts as none).
C27_PermalinkStoredWithoutOuterSlashes ==
  \A t \in Tasks :
    (Solo(t) /\ PipelineInvoked(t) /\ Succeeded(t, "update SUCCESS")) =>
      LET fm == FetchedFrontmatter(t)
          stored == Blob[loc[t].blobId].permalink
      IN /\ \A v \in stored : Unslashed(v)
         /\ IF "permalink" \in DOMAIN fm /\ fm.permalink # <<>>
            THEN stored = Some(WithoutOuterSlashes(fm.permalink))
            ELSE stored = NULL

\* The permalink //p/ was stored as p over the permalink of an earlier
\* version.
C27_Witness ==
  \E t \in Tasks :
    /\ Done(t) /\ acked[t] /\ Succeeded(t, "update SUCCESS")
    /\ "permalink" \in DOMAIN FetchedFrontmatter(t)
    /\ FetchedFrontmatter(t).permalink = <<"/","/","p","/">>
    /\ pre.Blob[loc[t].blobId].permalink = Some(<<"o","/">>)
    /\ Blob[loc[t].blobId].permalink = Some(<<"p">>)


\* ---------------------------------------------------------------------
\* Task t is on the suppress-publication path.
OnSuppressPath(t) ==
  \/ pc[t] \in {"pf_delete_object", "pf_delete_row", "pf_delete_index"}
  \/ Called(t, "delete object")

Fails(t) == raised[t] = NULL /\ raised'[t] # NULL

\* The handler of u is where it was.
Untouched(u) ==
  /\ pc'[u] = pc[u] /\ acked'[u] = acked[u] /\ raised'[u] = raised[u]
  /\ loc'[u] = loc[u] /\ log'[u] = log[u] /\ msgKey'[u] = msgKey[u]

\* C24: the messages of a batch are handled independently: the step in
\* which one handling fails leaves the handler of every other message where
\* it was; a handler that has not finished can always go on, whatever became
\* of the others; and next to a failed message, whether a message is
\* acknowledged depends on its own key and its own calls alone.
C24_BatchMessagesIndependent ==
  /\ [][\A t, u \in Tasks : (t # u /\ Fails(t)) => Untouched(u)]_vars
  /\ [](\A u \in Tasks :
          (InFlight(u) /\ \A v \in Tasks : pc[v] # "start") =>
            ENABLED Step(u))
  /\ [](\A t, u \in Tasks :
          (t # u /\ Done(t) /\ raised[t] # NULL /\ Done(u)) =>
            (acked[u] <=>
               (Decoded(u) /\ (PipelineInvoked(u) => ~PipelineFailed(u)))))

\* One message of a batch failed and was not acknowledged; the other, for
\* the same document, was processed and acknowledged.
C24_Witness ==
  \E t, u \in Tasks :
    /\ t # u /\ msgKey[t] = msgKey[u]
    /\ Done(t) /\ raised[t] # NULL /\ ~acked[t]
    /\ Done(u) /\ Succeeded(u, "update SUCCESS") /\ acked[u]

\* ---------------------------------------------------------------------
\* C29 as stated: queue() always completes normally: its promise is never
\* rejected, and resolves once every handler is over.
C29_QueueAlwaysResolves ==
  /\ outcome # "rejected"
  /\ \A t \in Tasks : pc[t] # "threw"
  /\ (outcome = "pending" /\ Quiescent) => ENABLED QueueReturns

\* C29 (amended): with DATABASE_URL set, queue() completes normally: no
\* handler rejects, the promise is never rejected and resolves once every
\* handler is over, also when every message failed; without DATABASE_URL,
\* validateEnv throws, the promise is rejected and no handler is started.
C29_QueueResolvesWhenEnvValid ==
  /\ \A t \in Tasks : pc[t] # "threw"
  /\ validateEnv(env) => outcome # "rejected"
  /\ (~validateEnv(env) /\ nDelivered > 0) => outcome = "rejected"
  /\ outcome = "rejected" =>
       \A t \in Tasks : pc[t] = "idle" /\ log[t] = <<>> /\ ~acked[t]
  /\ (outcome = "pending" /\ Quiescent) => ENABLED QueueReturns
  /\ outcome = "resolved" => Quiescent

\* queue() resolved after a batch of two messages that both failed and were
\* not acknowledged.
C29_Witness ==
  /\ outcome = "resolved"
  /\ \A t \in Tasks : Done(t) /\ raised[t] # NULL /\ ~acked[t]

\* ------------------------------------------------- status and error agree
\* C31: in every reachable state a row whose sync_status is SUCCESS has no
\* sync_error, and a row that has a sync_error has sync_status ERROR: the
\* PROCESSING update of a row that was in ERROR does not leave the old
\* message on it.
C31_StatusAndErrorAgree ==
  \A id \in DOMAIN Blob :
    /\ Blob[id].sync_status = "SUCCESS" => Blob[id].sync_error = NULL
    /\ Blob[id].sync_error # NULL => Blob[id].sync_status = "ERROR"

\* ------------------------------------------------ the rows a handling writes
\* The row of id in catalog B, or nothing.
RowOf(B, id) == IF id \in DOMAIN B THEN Some(B[id]) ELSE NULL

\* The rows the step changed or deleted.
ChangedRows ==
  {id \in DOMAIN Blob \cup DOMAIN Blob' : RowOf(Blob', id) # RowOf(Blob, id)}

\* The task whose continuation the step ran.
Stepping(t) == pc'[t] # pc[t]

\* C32: the lookup of a handling for (siteId, path) returns the latest row
\* of that site and path, and every step of the handling, the error path
\* included, changes at most that one row: the rows of another site and
\* the rows of the same site with another path, or older, stay as they are.
C32_OnlyTheRowLookedUpChanges ==
  /\ [][\A t \in Tasks :
          (Stepping(t) /\ loc'[t].blobId \notin {"", loc[t].blobId}) =>
            /\ loc[t].blobId = ""
            /\ loc'[t].blobId \in SelectLatest(KeySite(t), KeyPath(t))]_vars
  /\ [][\A id \in ChangedRows :
          \E t \in Tasks :
            /\ Stepping(t) /\ Decoded(t)
            /\ loc[t].blobId = id
            /\ Blob[id].site_id = KeySite(t)
            /\ Blob[id].path = KeyPath(t)
            /\ ChangedRows = {id}]_vars

\* The handling of a.md of the first site deleted the later of its two rows
\* while the handling of a.md of the second site marked that site's row;
\* the older row of the first site and the rows for i.png are as they were.
C32_Witness ==
  \E t, u \in Tasks :
    /\ Done(t) /\ msgKey[t] = ObjectKey(Site1, Branch, PathDoc)
    /\ loc[t].blobId = "b4" /\ "b4" \notin DOMAIN Blob
    /\ Done(u) /\ msgKey[u] = ObjectKey(Site2, Branch, PathDoc)
    /\ loc[u].blobId = "b5" /\ Blob["b5"].sync_status = "SUCCESS"
    /\ \A id \in {"b1", "b2", "b6"} : Blob[id] = CatalogRows[id]

\* ------------------------------------------- after a suppressed document
\* Task t took the suppress-publication path to its end: object, row and
\* search document were removed and the message acknowledged.
RemovedBy(t) ==
  /\ Done(t) /\ acked[t]
  /\ Succeeded(t, "delete object") /\ Succeeded(t, "delete row")
  /\ Succeeded(t, "index delete")

\* The batch before u's carried the notification of u alone and took the
\* suppress-publication path to its end.
RemovedBefore(u) ==
  \E first \in pre.last :
    /\ first.key = msgKey[u]
    /\ first.acked /\ first.clean
    /\ \E resp \in first.resp :
         ~resp.text.malformed /\ PublishSuppressed(resp.text.fm)

\* The step of u changes no store and does not acknowledge.
ChangesNothing(u) ==
  /\ Blob' = Blob /\ bucket' = bucket /\ index' = index
  /\ ~acked'[u]

\* C33: once the suppress-publication path has removed a document, every
\* step of a later handling and of a concurrent handling of a notification
\* for the same key changes neither catalog, storage nor search index, and
\* the message is never acknowledged.
C33_NothingAfterRemoval ==
  /\ [][\A u \in Tasks :
          (Stepping(u) /\ pc[u] # "done" /\ RemovedBefore(u)) =>
            ChangesNothing(u)]_vars
  /\ [][\A t, u \in Tasks :
          (t # u /\ RemovedBy(t) /\ msgKey[u] = msgKey[t] /\ Stepping(u)) =>
            ChangesNothing(u)]_vars

\* ------------------------------------------------------------ termination
\* No call of t to the stores failed: the lookup found a row, the object
\* was there, and no catalog, storage or index call threw.  The size test
\* and the parse are not calls to a store.
NoStoreCallFailed(t) ==
  \A i \in 1..Len(log[t]) :
    log[t][i].op \notin {"size", "parse"} => log[t][i].ok

\* C34 as stated: under fair scheduling every task of a batch finishes and
\* queue() returns, and a finished task none of whose calls failed, for a
\* document that exists, has acknowledged its message.
C34_ExistingDocumentAcknowledged ==
  /\ \A t \in Tasks : (pc[t] = "start") ~> Done(t)
  /\ (outcome = "pending") ~> (outcome = "resolved")
  /\ [](\A t \in Tasks :
          (Done(t) /\ Decoded(t) /\ NoStoreCallFailed(t)) => acked[t])

\* C34 (amended): under fair scheduling every task of a batch finishes and
\* queue() returns; a finished task none of whose calls failed, for a
\* document that exists, is within the size ceiling and parses, has
\* acknowledged its message; a document above the ceiling or one that does
\* not parse is never acknowledged.
C34_TasksFinishAndSoundDocumentAcknowledged ==
  /\ \A t \in Tasks : (pc[t] = "start") ~> Done(t)
  /\ (outcome = "pending") ~> (outcome = "resolved")
  /\ [](\A t \in Tasks :
          /\ (Done(t) /\ Decoded(t) /\ NoCallFailed(t)) => acked[t]
          /\ (Failed(t, "size") \/ Failed(t, "parse")) => ~acked[t])

\* queue() returned after a batch of two: the message of the image, whose
\* row exists, was acknowledged with no call failing; the message of a
\* document above the ceiling was not, with no call to a store failing.
C34_Witness ==
  /\ outcome = "resolved"
  /\ \E t, u \in Tasks :
       /\ Done(t) /\ Succeeded(t, "update SUCCESS") /\ NoCallFailed(t)
       /\ acked[t]
       /\ Done(u) /\ NoStoreCallFailed(u) /\ Failed(u, "size") /\ ~acked[u]

====
